---- MODULE Spec2Model ----
(***************************************************************************)
(* A model of the Ryan configuration language interpreter.                 *)
(*                                                                         *)
(* Part I   (specification Spec): the import subsystem, from               *)
(*          environment/mod.rs, environment/loader.rs and parser/import.rs.*)
(*          A program is a block of `import` bindings; module sources are  *)
(*          fixed the first time they are read and every later read sees   *)
(*          the same source.                                               *)
(* Part II  (specification SpecEval): the tree-walking evaluator, from     *)
(*          parser/{mod,block,binding,expression,literal,operation,        *)
(*          pattern,types,value,comprehension,import}.rs, run on programs  *)
(*          drawn from bounded families under the hermetic loader.         *)
(* Part III (specification SpecLoader): the loader combinators of          *)
(*          environment/loader.rs, one `load` call at a time.              *)
(***************************************************************************)
EXTENDS Integers, Naturals, Sequences, FiniteSets, TLC

VARIABLES
    loaderName,     \* which ImportLoader the Environment was built with
    fs,             \* module sources, keyed by absolute path (<<>> is the program)
    loaded,         \* ImportState.loaded : path string -> Value
    import_stack,   \* ImportState.import_stack
    loadCalls,      \* how many times ImportLoader::load ran, per <<path string, absolute path>>
    frames,         \* the nested parser::eval activations (State of each module)
    result,         \* the outcome parser::eval returned for the program
    nImports,       \* import expressions written so far in the sources read
    last,           \* the last Import::eval that ran: its input and what it did
    program,        \* Part II: the Block handed to parser::eval
    runs,           \* Part II: the outcomes of the evaluations of `program` so far
    wrapped,        \* Part III: the loader under test: a base loader and its combinators
    loadStack,      \* Part III: the activations of ImportLoader::load, outermost first
    loadOutcome,    \* Part III: what the outermost `load` call returned
    deValue,        \* Part IV: the Value handed to the decoder
    visited,        \* Part IV: what the decoder gave to the visitor, or its error
    json,           \* Part V: the JSON document given as a program
    parsed,         \* Part V: what parser::parse returned for it
    jsonOut,        \* Part V: the outcome of evaluating the parsed block
    operation,      \* Part VI: the operands and the operator of an integer operation
    computed        \* Part VI: what BinaryOperation::eval made of it

importVars ==
    <<loaderName, fs, loaded, import_stack, loadCalls, frames, result, nImports, last>>

evalVars == <<program, runs>>

loaderVars == <<wrapped, loadStack, loadOutcome>>

decodeVars == <<deValue, visited>>

jsonVars == <<json, parsed, jsonOut>>

arithVars == <<operation, computed>>

vars == <<importVars, evalVars, loaderVars, decodeVars, jsonVars, arithVars>>

\* The evaluator of Part II, the loader calls of Part III, the decoder of
\* Part IV, the parser of Part V and the arithmetic of Part VI are not running
EvalIdle == program = <<>> /\ runs = <<>>
LoaderIdle == wrapped = <<>> /\ loadStack = <<>> /\ loadOutcome = <<>>
DecoderIdle == deValue = <<>> /\ visited = <<>>
JsonIdle == json = <<>> /\ parsed = <<>> /\ jsonOut = <<>>
ArithIdle == operation = <<>> /\ computed = <<>>

----------------------------------------------------------------------------
(* Bounds *)

\* imports evaluated in one run of the program, over all modules
MaxImports == 3

\* units (characters or escape sequences) in a key of a JSON document
MaxUnits == 2

----------------------------------------------------------------------------
(* Paths.  A path is a sequence of components; "env:V" is one component.   *)

Cwd == <<>>
NoModule == <<>>

PathA == <<"a">>
PathB == <<"b">>
PathDA == <<"d", "a">>
PathEnv == <<"env:V">>

RawPaths == {PathA, PathB, PathDA}

\* str::starts_with("env:")
IsEnvPath(p) == Len(p) > 0 /\ p[1] = "env:V"

\* PathBuf::pop
PathPop(p) == IF Len(p) = 0 THEN p ELSE SubSeq(p, 1, Len(p) - 1)

Contains(seq, x) == \E i \in 1..Len(seq) : seq[i] = x

----------------------------------------------------------------------------
(* Values and errors of the import machine *)

NoError == [kind |-> "none", path |-> <<>>]
Err(k, p) == [kind |-> k, path |-> p]

TextValue(abs) == [fmt |-> "text", of |-> abs, parts |-> <<>>]
RyanValue(abs, parts) == [fmt |-> "ryan", of |-> abs, parts |-> parts]
DefaultValue == [fmt |-> "default", of |-> <<>>, parts |-> <<>>]
NoValue == [fmt |-> "none", of |-> <<>>, parts |-> <<>>]

Ok(v) == [ok |-> TRUE, val |-> v, err |-> NoError]
Fail(e) == [ok |-> FALSE, val |-> NoValue, err |-> e]

Formats == {"Ryan", "Text"}
Stmts == [path : RawPaths, format : Formats, default : BOOLEAN]

\* What a source file can be: absent, not parseable, or a Ryan block
Kinds == {"missing", "bad", "ryan"}

\* The sources an import can find at a path, given what earlier reads of the
\* path found ("unknown": never read; "file": read as text only, so never
\* parsed).  An import that does not reach the loader finds nothing.
KindChoices(reads, stored, format) ==
    IF ~reads THEN {"ryan"}
    ELSE IF stored = "unknown"
         THEN IF format = "Text" THEN {"missing", "ryan"} ELSE Kinds
         ELSE IF stored = "file"
              THEN IF format = "Text" THEN {"ryan"} ELSE {"bad", "ryan"}
              ELSE {stored}

\* What is known of the source after this read
KindFound(stored, format, k) ==
    IF format = "Text" /\ stored \in {"unknown", "file"} /\ k # "missing"
    THEN "file"
    ELSE k

----------------------------------------------------------------------------
(* ImportLoader implementations *)

ResolveOk(p) == [ok |-> TRUE, path |-> p, err |-> NoError]
ResolveErr(e) == [ok |-> FALSE, path |-> <<>>, err |-> e]

\* DefaultImporter::resolve
DefaultImporterResolve(current, path) ==
    IF IsEnvPath(path)
    THEN ResolveOk(path)
    ELSE IF current # NoModule
         THEN IF IsEnvPath(current)
              THEN ResolveErr(Err("CannotAccessFileSystemFromEnv", <<>>))
              ELSE ResolveOk(PathPop(current) \o path)
         ELSE ResolveOk(Cwd \o path)

\* NoImport::resolve
NoImportResolve(current, path) == ResolveErr(Err("NoImport", <<>>))

\* dyn ImportLoader::resolve of the loader the environment holds
LoaderResolve(current, path) ==
    IF loaderName = "NoImport"
    THEN NoImportResolve(current, path)
    ELSE DefaultImporterResolve(current, path)

\* DefaultImporter::load: env::var / File::open succeed iff the source exists
DefaultImporterLoad(kind) == kind # "missing"

\* NoImport::load
NoImportLoad(kind) == FALSE

\* dyn ImportLoader::load: TRUE iff a reader is returned
LoaderLoad(kind) ==
    IF loaderName = "NoImport" THEN NoImportLoad(kind) ELSE DefaultImporterLoad(kind)

----------------------------------------------------------------------------
(* ImportState::try_push_import *)

\* mutant: the import stack is not searched
TryPushImport_NoCycleCheck(stack, current, path) ==
    LET r == LoaderResolve(current, path) IN
    IF ~r.ok
    THEN [ok |-> FALSE, resolved |-> <<>>, err |-> r.err, stack |-> stack]
    ELSE [ok |-> TRUE, resolved |-> r.path, err |-> NoError,
          stack |-> Append(stack, r.path)]

TryPushImport(stack, current, path) ==
    LET r == LoaderResolve(current, path) IN
    IF ~r.ok
    THEN [ok |-> FALSE, resolved |-> <<>>, err |-> r.err, stack |-> stack]
    ELSE IF Contains(stack, r.path)
         THEN [ok |-> FALSE, resolved |-> r.path,
               err |-> Err("CircularImportDetected", r.path), stack |-> stack]
         ELSE [ok |-> TRUE, resolved |-> r.path, err |-> NoError,
               stack |-> Append(stack, r.path)]

\* Vec::pop
VecPop(stack) == IF Len(stack) = 0 THEN stack ELSE SubSeq(stack, 1, Len(stack) - 1)

\* HashMap::insert
MapInsert(m, k, v) == [x \in (DOMAIN m) \cup {k} |-> IF x = k THEN v ELSE m[x]]

\* one more call of ImportLoader::load, for import `key[1]` resolved to `key[2]`
CountCall(calls, key) ==
    MapInsert(calls, key, IF key \in DOMAIN calls THEN calls[key] + 1 ELSE 1)

\* The tail of Environment::load once Format::load has returned Ok(value):
\* pop the import stack and cache the value under the path string.
LoadCommit(stack, cache, path, value) ==
    [stack |-> VecPop(stack), loaded |-> MapInsert(cache, path, value)]

\* Environment::load after the cache lookup missed: try_push_import, then
\* ImportLoader::load, then Format::load, up to the point where Format::load
\* evaluates the module.
\*   tag "ok"   : returned Ok(val), after popping the stack and caching
\*   tag "err"  : returned Err(err) through `?`
\*   tag "call" : parser::eval of the imported module starts (a new State)
\* kind is the source found at the resolved path; read says whether
\* ImportLoader::load was called.
LoadUncached(current, format, path, kind) ==
    LET p == TryPushImport(import_stack, current, path) IN
    IF ~p.ok
    THEN [tag |-> "err", val |-> NoValue, err |-> p.err, resolved |-> p.resolved,
          stack |-> p.stack, loaded |-> loaded, read |-> FALSE]
    ELSE IF ~LoaderLoad(kind)
    THEN [tag |-> "err", val |-> NoValue,
          err |-> Err(IF loaderName = "NoImport" THEN "NoImport" ELSE "Io", p.resolved),
          resolved |-> p.resolved,
          stack |-> p.stack, loaded |-> loaded, read |-> TRUE]
    ELSE IF format = "Text"
    THEN LET c == LoadCommit(p.stack, loaded, path, TextValue(p.resolved)) IN
         [tag |-> "ok", val |-> TextValue(p.resolved), err |-> NoError,
          resolved |-> p.resolved,
          stack |-> c.stack, loaded |-> c.loaded, read |-> TRUE]
    ELSE IF kind = "bad"
    THEN [tag |-> "err", val |-> NoValue, err |-> Err("Parse", p.resolved),
          resolved |-> p.resolved,
          stack |-> p.stack, loaded |-> loaded, read |-> TRUE]
    ELSE [tag |-> "call", val |-> NoValue, err |-> NoError, resolved |-> p.resolved,
          stack |-> p.stack, loaded |-> loaded, read |-> TRUE]

\* mutant: the cache is not consulted
EnvironmentLoad_NoCache(current, format, path, kind) ==
    LoadUncached(current, format, path, kind)

\* Environment::load, entered from Import::eval
EnvironmentLoad(current, format, path, kind) ==
    IF path \in DOMAIN loaded
    THEN [tag |-> "ok", val |-> loaded[path], err |-> NoError, resolved |-> <<>>,
          stack |-> import_stack, loaded |-> loaded, read |-> FALSE]
    ELSE LoadUncached(current, format, path, kind)

----------------------------------------------------------------------------
(* parser::eval of a block of import bindings *)

\* State::new
NewState(module) ==
    [module |-> module, pc |-> 1, vals |-> <<>>,
     ctx |-> <<<<"RunningFile", module>>>>, err |-> NoError]

Running == [status |-> "running", val |-> NoValue, err |-> NoError]

NoLast ==
    [op |-> "none", module |-> NoModule, stmt |-> [path |-> <<>>, format |-> "Ryan", default |-> FALSE],
     hit |-> FALSE, resolved |-> <<>>, onStack |-> FALSE, read |-> FALSE, tag |-> "none",
     err |-> NoError, val |-> NoValue, ctxBefore |-> 0, ctxAfter |-> 0]

\* The tail of Import::eval, in the State `f` that evaluates the import, once
\* Environment::load has returned `r` (Ok or Err): take the value, or the
\* fallback, or record the error; pop the context frame unless backtracking.
\* mutant: the fallback is ignored
ImportFinish_NoFallback(f, stmt, r) ==
    IF r.ok
    THEN [f EXCEPT !.vals = Append(@, r.val), !.ctx = VecPop(@), !.pc = @ + 1]
    ELSE [f EXCEPT !.err = r.err]

ImportFinish(f, stmt, r) ==
    IF r.ok
    THEN [f EXCEPT !.vals = Append(@, r.val), !.ctx = VecPop(@), !.pc = @ + 1]
    ELSE IF stmt.default
         THEN [f EXCEPT !.vals = Append(@, DefaultValue), !.ctx = VecPop(@), !.pc = @ + 1]
         ELSE [f EXCEPT !.err = r.err]

ReplaceTop(fr, f) == [fr EXCEPT ![Len(fr)] = f]

\* Import::eval: one `import` expression of the running module, up to the
\* return of Environment::load or the start of the imported module's evaluation.
ImportEval(s, k) ==
    /\ result.status = "running"
    /\ Len(frames) > 0
    /\ LET f == frames[Len(frames)]
           src == fs[f.module]
           new == f.pc > Len(src.body)
       IN
       /\ f.err = NoError
       /\ IF new
          THEN src.closed = "open" /\ nImports < MaxImports
          ELSE s = src.body[f.pc]
       /\ LET fs1 == IF new THEN [fs EXCEPT ![f.module].body = Append(@, s)] ELSE fs
              pushed == [f EXCEPT !.ctx = Append(@, <<"LoadingImport", s.path>>)]
              \* whether the loader is reached, and for which path, does not
              \* depend on the source found there
              pre == EnvironmentLoad(f.module, s.format, s.path, "ryan")
              reads == pre.read
              stored == IF reads /\ pre.resolved \in DOMAIN fs1
                        THEN fs1[pre.resolved].kind ELSE "unknown"
          IN
          /\ k \in KindChoices(reads, stored, s.format)
          /\ LET r == EnvironmentLoad(f.module, s.format, s.path, k)
                 done == ImportFinish(pushed, s,
                             [ok |-> r.tag = "ok", val |-> r.val, err |-> r.err])
                 kept == KindFound(stored, s.format, k)
             IN
             /\ fs' = IF ~reads THEN fs1
                      ELSE IF stored = "unknown"
                      THEN MapInsert(fs1, r.resolved,
                                     [kind |-> kept, body |-> <<>>, closed |-> "open"])
                      ELSE [fs1 EXCEPT ![r.resolved].kind = kept]
             /\ import_stack' = r.stack
             /\ loaded' = r.loaded
             /\ loadCalls' = IF r.read
                             THEN CountCall(loadCalls, <<s.path, r.resolved>>)
                             ELSE loadCalls
             /\ frames' = IF r.tag = "call"
                          THEN Append(ReplaceTop(frames, pushed), NewState(r.resolved))
                          ELSE ReplaceTop(frames, done)
             /\ last' = [op |-> "import", module |-> f.module, stmt |-> s,
                         hit |-> s.path \in DOMAIN loaded,
                         resolved |-> r.resolved,
                         onStack |-> Contains(import_stack, r.resolved),
                         read |-> r.read, tag |-> r.tag, err |-> r.err, val |-> r.val,
                         ctxBefore |-> Len(f.ctx),
                         ctxAfter |-> IF r.tag = "call" THEN Len(pushed.ctx)
                                      ELSE Len(done.ctx)]
       /\ nImports' = IF new THEN nImports + 1 ELSE nImports
    /\ UNCHANGED <<loaderName, result, evalVars, loaderVars, decodeVars, jsonVars, arithVars>>

\* The block of the running module is over, with `out`.  For the program,
\* parser::eval returns; for an imported module Format::load returns into
\* Environment::load (which pops and caches only on Ok) and Import::eval
\* finishes in the importing State.
Deliver(out) ==
    IF Len(frames) = 1
    THEN /\ result' = [status |-> IF out.ok THEN "value" ELSE "error",
                       val |-> out.val, err |-> out.err]
         /\ frames' = <<>>
         /\ last' = [NoLast EXCEPT !.op = "eval"]
         /\ UNCHANGED <<import_stack, loaded>>
    ELSE LET parent == frames[Len(frames) - 1]
             stmt == fs[parent.module].body[parent.pc]
             c == LoadCommit(import_stack, loaded, stmt.path, out.val)
             after == ImportFinish(parent, stmt, out)
         IN
         /\ import_stack' = IF out.ok THEN c.stack ELSE import_stack
         /\ loaded' = IF out.ok THEN c.loaded ELSE loaded
         /\ frames' = ReplaceTop(SubSeq(frames, 1, Len(frames) - 1), after)
         /\ last' = [op |-> "return", module |-> parent.module, stmt |-> stmt, hit |-> FALSE,
                     resolved |-> frames[Len(frames)].module, onStack |-> FALSE,
                     read |-> FALSE, tag |-> IF out.ok THEN "ok" ELSE "err",
                     err |-> out.err, val |-> out.val,
                     ctxBefore |-> Len(parent.ctx) - 1, ctxAfter |-> Len(after.ctx)]
         /\ UNCHANGED result

\* Block::eval reaches the trailing expression of the module: it evaluates
\* to a value (c = "ok") or raises (c = "fail"; only imported modules are
\* given a raising trailing expression).
EndBlock(c) ==
    /\ result.status = "running"
    /\ Len(frames) > 0
    /\ c = "fail" => Len(frames) > 1
    /\ LET f == frames[Len(frames)]
           src == fs[f.module]
       IN
       /\ f.err = NoError
       /\ f.pc = Len(src.body) + 1
       /\ src.closed \in {"open", c}
       /\ fs' = [fs EXCEPT ![f.module].closed = c]
       /\ Deliver(IF c = "ok" THEN Ok(RyanValue(f.module, f.vals))
                  ELSE Fail(Err("Eval", f.module)))
    /\ UNCHANGED <<loaderName, loadCalls, nImports, evalVars, loaderVars, decodeVars, jsonVars, arithVars>>

\* An import without fallback failed: Block::eval backtracks out of the module.
Backtrack ==
    /\ result.status = "running"
    /\ Len(frames) > 0
    /\ frames[Len(frames)].err # NoError
    /\ Deliver(Fail(frames[Len(frames)].err))
    /\ UNCHANGED <<loaderName, fs, loadCalls, nImports, evalVars, loaderVars, decodeVars, jsonVars, arithVars>>

Loaders == {"Default", "NoImport"}

\* Environment::new(module): the program runs without a module name, or is
\* the content of an environment variable
MainModules == {NoModule, PathEnv}

Init ==
    /\ loaderName \in Loaders
    /\ \E m \in MainModules :
          /\ fs = (m :> [kind |-> "ryan", body |-> <<>>, closed |-> "open"])
          /\ frames = <<NewState(m)>>
    /\ loaded = << >>
    /\ import_stack = << >>
    /\ loadCalls = << >>
    /\ result = Running
    /\ nImports = 0
    /\ last = NoLast
    /\ EvalIdle
    /\ LoaderIdle
    /\ DecoderIdle
    /\ JsonIdle
    /\ ArithIdle

Next ==
    \/ \E s \in Stmts, k \in Kinds : ImportEval(s, k)
    \/ \E c \in {"ok", "fail"} : EndBlock(c)
    \/ Backtrack

Spec == Init /\ [][Next]_vars

----------------------------------------------------------------------------
(* Properties of the import subsystem *)

NoDuplicates(seq) == \A i, j \in 1..Len(seq) : seq[i] = seq[j] => i = j

TopFrame == frames[Len(frames)]

C2_StackEmptyAfterReturn ==
    result.status # "running" => import_stack = <<>>

\* C2, per call: when Environment::load has returned into the importing
\* module, the path it pushed is no longer on the import stack.
C2_PoppedOnEveryReturn ==
    (last.op \in {"import", "return"} /\ last.tag # "call" /\ last.resolved # <<>>
        /\ ~last.onStack)
    => ~Contains(import_stack, last.resolved)

\* C3: ImportLoader::load runs at most once for the same import path.
C3_LoadAtMostOnce ==
    \A key \in DOMAIN loadCalls : loadCalls[key] <= 1

\* C3 (amended): an import whose path string is in the cache returns the
\* cached value and the loader is not called.
C3_CachedImportNeverLoads ==
    (last.op = "import" /\ last.hit) =>
        /\ ~last.read
        /\ last.tag = "ok"
        /\ last.stmt.path \in DOMAIN loaded
        /\ last.val = loaded[last.stmt.path]
        /\ last.val.fmt # "default"

\* the same path is imported again after it was loaded and cached
C3_Witness ==
    /\ last.op = "import" /\ last.hit
    /\ \E key \in DOMAIN loadCalls : key[1] = last.stmt.path /\ loadCalls[key] = 1

C16_CacheKeyedByResolvedPath ==
    (last.op = "import" /\ last.hit) =>
        LET r == LoaderResolve(last.module, last.stmt.path) IN
        r.ok /\ last.val.of = r.path

\* the modules whose load has started and not returned, outermost first
LoadsInProgress == [i \in 1..(Len(frames) - 1) |-> frames[i + 1].module]

\* C17: the import stack is the chain of the loads in progress, and an
\* import is rejected as circular only when it resolves to a module whose
\* load is in progress.
C17_StackIsLoadChain ==
    /\ result.status = "running" => import_stack = LoadsInProgress
    /\ (last.op = "import" /\ last.err.kind = "CircularImportDetected") =>
          Contains(LoadsInProgress, last.resolved)

\* C20: an import that yields a loaded value yields the content as text
\* when it is written `as text` and the evaluated module otherwise.
C20_ValueFollowsFormat ==
    (last.op \in {"import", "return"} /\ last.tag = "ok") =>
        last.val.fmt = (IF last.stmt.format = "Text" THEN "text" ELSE "ryan")

----------------------------------------------------------------------------
(* Part II: the evaluator *)

\* PatternMatch::match activations that fit on the host stack
StackLimit == 4

\* evaluations of the same program in one behaviour
MaxRuns == 2

\* HashMap instances of one evaluation whose iteration order is chosen freely
MaxHashMaps == 2

----------------------------------------------------------------------------
(* Abstract syntax: Literal, TypeExpression, Pattern, Expression, Binding,  *)
(* Block                                                                    *)

LitNull == [l |-> "Null"]
LitBool(b) == [l |-> "Bool", b |-> b]
LitInteger(i) == [l |-> "Integer", int |-> i]
LitFloat(f) == [l |-> "Float", float |-> f]
LitText(s) == [l |-> "Text", text |-> s]
LitIdentifier(id) == [l |-> "Identifier", id |-> id]

TyAny == [ty |-> "Any"]
TyNull == [ty |-> "Null"]
TyBool == [ty |-> "Bool"]
TyInteger == [ty |-> "Integer"]
TyFloat == [ty |-> "Float"]
TyText == [ty |-> "Text"]
\* Record and StrictRecord: an IndexMap, the items <<key, type>> in order
TyList(item) == [ty |-> "List", item |-> item]
TyOr(items) == [ty |-> "Or", items |-> items]
TyRecord(items) == [ty |-> "Record", items |-> items]
TyStrictRecord(items) == [ty |-> "StrictRecord", items |-> items]
TyVariable(id) == [ty |-> "Variable", id |-> id]

\* a type guard, an `if` guard and an import fallback are Options: <<>> or <<x>>
PatWildcard == [p |-> "Wildcard"]
PatIdentifier(id, guard) == [p |-> "Identifier", id |-> id, guard |-> guard]
PatLiteral(lit) == [p |-> "Literal", lit |-> lit]
PatMatchList(items) == [p |-> "MatchList", items |-> items]
MatchDictItem(key, pattern) == [key |-> key, pattern |-> pattern]
PatMatchDict(items) == [p |-> "MatchDict", items |-> items]
PatMatchDictStrict(items) == [p |-> "MatchDictStrict", items |-> items]

ExprLiteral(lit) == [e |-> "Literal", lit |-> lit]
ExprList(items) == [e |-> "List", items |-> items]
ExprConditional(c, t, f) == [e |-> "Conditional", if |-> c, then |-> t, else |-> f]
ExprBinaryOperation(left, op, right) ==
    [e |-> "BinaryOperation", left |-> left, op |-> op, right |-> right]
ExprImport(path, default) ==
    [e |-> "Import", path |-> path, format |-> "Ryan", default |-> default]
KeyValue(key, value) == [key |-> key, value |-> value]
ExprDict(items) == [e |-> "Dict", items |-> items]
ForClause(pattern, expression) == [pattern |-> pattern, expression |-> expression]
ExprListComprehension(expression, for_clauses, guard) ==
    [e |-> "ListComprehension", expression |-> expression,
     for_clauses |-> for_clauses, if_guard |-> guard]
ExprDictComprehension(key, value, for_clauses, guard) ==
    [e |-> "DictComprehension", key |-> key, value |-> value,
     for_clauses |-> for_clauses, if_guard |-> guard]

Block(bindings, expression) == [bindings |-> bindings, expression |-> expression]

BindingPatternMatchDefinition(identifier, pattern, block) ==
    [b |-> "PatternMatchDefinition", identifier |-> identifier, pattern |-> pattern,
     block |-> block]
BindingDestructuring(pattern, block) ==
    [b |-> "Destructuring", pattern |-> pattern, block |-> block]
BindingTypeDefinition(identifier, type_expression) ==
    [b |-> "TypeDefinition", identifier |-> identifier,
     type_expression |-> type_expression]

----------------------------------------------------------------------------
(* Value, Type *)

ValueNull == [t |-> "Null"]
ValueBool(b) == [t |-> "Bool", b |-> b]
ValueInteger(i) == [t |-> "Integer", int |-> i]
\* Value::Float: an f64 is NaN or a number, written as a count of halves
ValueFloat(f) == [t |-> "Float", float |-> f]
ValueText(s) == [t |-> "Text", text |-> s]
\* Value::List: the items in order
ValueList(items) == [t |-> "List", items |-> items]
\* Value::Map: an IndexMap, the entries <<key, value>> in iteration order
ValueMap(entries) == [t |-> "Map", entries |-> entries]
\* Value::PatternMatches: the alternatives [pattern, block, captures] in order
ValuePatternMatches(id, pats) == [t |-> "PatternMatches", id |-> id, pats |-> pats]
ValueNativePatternMatch(id) == [t |-> "NativePatternMatch", id |-> id]
ValueType(ty) == [t |-> "Type", ty |-> ty]
\* the Value of an imported module, as Environment::load of Part I returns it
ValueImported(v) == [t |-> "Imported", module |-> v]

PatternMatch(pattern, block, captures) ==
    [pattern |-> pattern, block |-> block, captures |-> captures]

\* f64: NaN, the number h/2, `i as f64`, and the `==` of f64
NaN == [nan |-> TRUE, halves |-> 0]
Halves(h) == [nan |-> FALSE, halves |-> h]
AsF64(i) == Halves(2 * i)
F64Eq(a, b) == ~a.nan /\ ~b.nan /\ a.halves = b.halves

\* Value::is_true
IsTrue(value) ==
    IF value.t = "Bool" THEN Ok(value.b) ELSE Fail(Err("NotABoolean", <<>>))

\* Value::matches: a value against a literal of a pattern
ValueMatches(value, lit) ==
    \/ value.t = "Integer" /\ lit.l = "Integer" /\ value.int = lit.int
    \/ value.t = "Float" /\ lit.l = "Float" /\ F64Eq(value.float, lit.float)
    \/ value.t = "Bool" /\ lit.l = "Bool" /\ value.b = lit.b
    \/ value.t = "Text" /\ lit.l = "Text" /\ value.text = lit.text

\* IndexMap::get
MapGet(entries, key) ==
    LET hits == {i \in 1..Len(entries) : entries[i][1] = key} IN
    IF hits = {} THEN Fail(Err("MissingKey", <<key>>))
    ELSE Ok(entries[CHOOSE i \in hits : TRUE][2])

\* Type::matches
RECURSIVE TypeMatches(_, _)
TypeMatches(ty, value) ==
    \/ ty.ty = "Any"
    \/ ty.ty = "Null" /\ value.t = "Null"
    \/ ty.ty = "Bool" /\ value.t = "Bool"
    \/ ty.ty = "Integer" /\ value.t = "Integer"
    \/ ty.ty = "Float" /\ value.t = "Float"
    \/ ty.ty = "Text" /\ value.t = "Text"
    \/ /\ ty.ty = "List"
       /\ value.t = "List"
       /\ \A i \in 1..Len(value.items) : TypeMatches(ty.item, value.items[i])
    \/ /\ ty.ty = "Or"
       /\ \E i \in 1..Len(ty.items) : TypeMatches(ty.items[i], value)
    \/ /\ ty.ty \in {"Record", "StrictRecord"}
       /\ value.t = "Map"
       /\ \A i \in 1..Len(ty.items) :
             LET got == MapGet(value.entries, ty.items[i][1]) IN
             got.ok /\ TypeMatches(ty.items[i][2], got.val)

\* Value::extract_item
ExtractItem(value, item) ==
    IF value.t = "Map" /\ item.t = "Text"
    THEN MapGet(value.entries, item.text)
    ELSE IF value.t = "List" /\ item.t = "Integer"
    THEN IF item.int >= 0 /\ item.int < Len(value.items)
         THEN Ok(value.items[item.int + 1])
         ELSE Fail(Err("IndexOutOfRange", <<>>))
    ELSE Fail(Err("CannotIndex", <<>>))

\* Value::extract_path
RECURSIVE ExtractPath(_, _)
ExtractPath(value, path) ==
    IF Len(path) = 0 THEN Ok(value)
    ELSE LET x == ExtractItem(value, path[1]) IN
         IF x.ok THEN ExtractPath(x.val, Tail(path)) ELSE x

\* Value::iter with ValueIter::next: the items a comprehension iterates over
ValueIter(value) ==
    IF value.t = "List" THEN Ok(value.items)
    ELSE IF value.t = "Map"
    THEN Ok([i \in 1..Len(value.entries) |->
                ValueList(<<ValueText(value.entries[i][1]), value.entries[i][2]>>)])
    ELSE Fail(Err("NotIterable", <<>>))

\* the built-ins of build_built_ins that the programs use
BuiltInNames == {"range", "zip", "max", "min"}

\* the `pattern` of the native pattern match `id`
NativePattern(id) ==
    IF id = "range"
    THEN PatMatchList(<<PatIdentifier("start", <<>>), PatIdentifier("end", <<>>)>>)
    ELSE IF id = "zip"
    THEN PatMatchList(<<PatIdentifier("left", <<>>), PatIdentifier("right", <<>>)>>)
    ELSE PatIdentifier("x", <<TyList(TyOr(<<TyFloat, TyInteger>>))>>)

\* the `func` of `id` reaches an `unreachable!()` with this argument
NativeUnreachable(id, arg) ==
    \/ id = "zip" /\ ~(arg.t = "List" /\ Len(arg.items) = 2)
    \/ /\ id \in {"max", "min"}
       /\ ValueIter(arg).ok
       /\ \E i \in 1..Len(ValueIter(arg).val) :
             ValueIter(arg).val[i].t \notin {"Integer", "Float"}

\* f64::max and f64::min (a NaN operand is ignored), i64::max and i64::min
F64Pick(id, a, b) ==
    IF a.nan THEN b
    ELSE IF b.nan THEN a
    ELSE IF id = "max" THEN (IF a.halves >= b.halves THEN a ELSE b)
    ELSE (IF a.halves <= b.halves THEN a ELSE b)
I64Pick(id, a, b) ==
    IF id = "max" THEN (IF a >= b THEN a ELSE b) ELSE (IF a <= b THEN a ELSE b)

\* the loop of the `func` of max and of min over the numbers `items`, from
\* item i on; `acc` is the variable `max` (`min`) of the closure
RECURSIVE NativeExtreme(_, _, _, _)
NativeExtreme(id, items, i, acc) ==
    IF i > Len(items) THEN acc
    ELSE LET val == items[i]
             next ==
                IF val.t = "Integer" /\ acc.t = "Integer"
                THEN ValueInteger(I64Pick(id, val.int, acc.int))
                ELSE IF val.t = "Float" /\ acc.t = "Integer"
                THEN ValueFloat(F64Pick(id, val.float, AsF64(acc.int)))
                ELSE IF val.t = "Integer" /\ acc.t = "Float"
                THEN ValueFloat(F64Pick(id, AsF64(val.int), acc.float))
                ELSE ValueFloat(F64Pick(id, val.float, acc.float))
         IN NativeExtreme(id, items, i + 1, next)

\* the `func` of the native pattern match `id`, where it returns
NativeFunc(id, arg) ==
    IF id = "range" /\ arg.t = "List"
    THEN IF Len(arg.items) = 2 /\ arg.items[1].t = "Integer" /\ arg.items[2].t = "Integer"
         THEN Ok(ValueList([i \in 1..(arg.items[2].int - arg.items[1].int) |->
                               ValueInteger(arg.items[1].int + i - 1)]))
         ELSE Fail(Err("BuiltinErrorMsg", <<id>>))
    ELSE IF id = "zip" /\ arg.t = "List" /\ Len(arg.items) = 2
    THEN LET left == ValueIter(arg.items[1])
             right == ValueIter(arg.items[2])
         IN
         IF ~left.ok THEN left
         ELSE IF ~right.ok THEN right
         ELSE LET n == IF Len(left.val) < Len(right.val) THEN Len(left.val)
                       ELSE Len(right.val)
              IN Ok(ValueList([i \in 1..n |-> ValueList(<<left.val[i], right.val[i]>>)]))
    ELSE IF id \in {"max", "min"}
    THEN LET iter == ValueIter(arg) IN
         IF ~iter.ok THEN iter
         ELSE Ok(NativeExtreme(id, iter.val, 1, ValueInteger(0)))
    ELSE Fail(Err("BuiltinErrorMsg", <<id>>))

----------------------------------------------------------------------------
(* State.  `inherited` is the chain of the bindings of the enclosing States, *)
(* nearest first.  `host` is what lies outside the State: the iteration      *)
(* orders that the HashMaps created by this evaluation will have, how many   *)
(* were created, and the observation log of the evaluation.                  *)

\* State::new
StateNew(module, orders) ==
    [bindings |-> <<>>, inherited |-> <<>>, error |-> NoError,
     contexts |-> <<<<"RunningFile", module>>>>,
     host |-> [orders |-> orders, maps |-> 0, log |-> <<>>]]

\* State::new_local: a child scope of `st` with the given bindings
NewLocal(st, bindings) ==
    [bindings |-> bindings, inherited |-> <<st.bindings>> \o st.inherited,
     error |-> NoError, contexts |-> <<>>, host |-> st.host]

\* the parent State when a child State is dropped
Rejoin(parent, child) == [parent EXCEPT !.host = child.host]

\* State::raise, and the Err branch of State::absorb
Raise(st, e) == [st EXCEPT !.error = e]

\* State::push_ctx, State::pop_ctx
PushCtx(st, c) == [st EXCEPT !.contexts = Append(@, c)]
PopCtx(st) == [st EXCEPT !.contexts = VecPop(@)]

\* the log, and the State an event was observed in: the State without the
\* log and the orders of the evaluation, and with them
Log(st, ev) == [st EXCEPT !.host.log = Append(@, ev)]
Scope(st) == [st EXCEPT !.host.log = <<>>, !.host.orders = <<>>]
Rescope(scope, orders) == [scope EXCEPT !.host.orders = orders]

\* State::try_get
TryGet(st, id) ==
    LET chain == <<st.bindings>> \o st.inherited
        hits == {i \in 1..Len(chain) : id \in DOMAIN chain[i]}
    IN
    IF hits # {}
    THEN Ok(chain[CHOOSE i \in hits : \A j \in hits : i <= j][id])
    ELSE IF id \in BuiltInNames
    THEN Ok(ValueNativePatternMatch(id))
    ELSE Fail(Err("Undefined", <<id>>))

\* Option<Value> with the State it was computed in; "overflow" is the host
\* stack running out, which ends the process, and "panic" is a `panic!`
Some(v, st) == [r |-> "some", val |-> v, st |-> st]
None(st) == [r |-> "none", val |-> ValueNull, st |-> st]
Overflow(st) == [r |-> "overflow", val |-> ValueNull, st |-> st]
Panic(st) == [r |-> "panic", val |-> ValueNull, st |-> st]

\* State::get
Get(st, id) ==
    LET g == TryGet(st, id) IN
    IF g.ok THEN Some(g.val, st) ELSE None(Raise(st, g.err))

\* Literal::eval
LiteralEval(lit, st) ==
    CASE lit.l = "Null" -> Some(ValueNull, st)
      [] lit.l = "Bool" -> Some(ValueBool(lit.b), st)
      [] lit.l = "Integer" -> Some(ValueInteger(lit.int), st)
      [] lit.l = "Float" -> Some(ValueFloat(lit.float), st)
      [] lit.l = "Text" -> Some(ValueText(lit.text), st)
      [] lit.l = "Identifier" -> Get(st, lit.id)

\* TypeExpression::eval.  TypeItemsEval evaluates the item types of a List,
\* an Or, a Record or a StrictRecord from item i on.
RECURSIVE TypeExpressionEval(_, _), TypeItemsEval(_, _, _, _)
TypeExpressionEval(texpr, st) ==
    CASE texpr.ty = "Variable" ->
            LET g == Get(st, texpr.id) IN
            IF g.r # "some" THEN g
            ELSE IF g.val.t = "Type" THEN Some(g.val.ty, g.st)
            ELSE None(Raise(g.st, Err("NotAType", <<texpr.id>>)))
      [] texpr.ty = "List" ->
            LET item == TypeExpressionEval(texpr.item, st) IN
            IF item.r # "some" THEN item ELSE Some(TyList(item.val), item.st)
      [] texpr.ty = "Or" ->
            LET items == TypeItemsEval(texpr.items, 1, <<>>, st) IN
            IF items.r # "some" THEN items ELSE Some(TyOr(items.val), items.st)
      [] texpr.ty \in {"Record", "StrictRecord"} ->
            LET types == TypeItemsEval([i \in 1..Len(texpr.items) |-> texpr.items[i][2]],
                                       1, <<>>, st)
            IN
            IF types.r # "some" THEN types
            ELSE Some([ty |-> texpr.ty,
                       items |-> [i \in 1..Len(texpr.items) |->
                                    <<texpr.items[i][1], types.val[i]>>]],
                      types.st)
      [] OTHER -> Some(texpr, st)

TypeItemsEval(texprs, i, evald, st) ==
    IF i > Len(texprs) THEN Some(evald, st)
    ELSE LET item == TypeExpressionEval(texprs[i], st) IN
         IF item.r # "some" THEN item
         ELSE TypeItemsEval(texprs, i + 1, Append(evald, item.val), item.st)

----------------------------------------------------------------------------
(* Pattern *)

\* A call of one function of the evaluator by another: f names the function
\* and a lists the arguments.  The functions are defined below and in the
\* sections that follow; Call is defined after the last of them.
RECURSIVE Call(_, _)

\* Pattern::provided
RECURSIVE PatternProvided(_)
PatternProvided(pattern) ==
    CASE pattern.p = "Identifier" -> {pattern.id}
      [] pattern.p = "MatchList" ->
            UNION {PatternProvided(pattern.items[i]) : i \in 1..Len(pattern.items)}
      [] pattern.p \in {"MatchDict", "MatchDictStrict"} ->
            UNION {PatternProvided(pattern.items[i].pattern) : i \in 1..Len(pattern.items)}
      [] OTHER -> {}

\* Option<Result<(), BindError>> with the bindings and the State
BindOk(bindings, st) == [r |-> "ok", bindings |-> bindings, st |-> st, err |-> NoError]
BindErr(bindings, st, e) == [r |-> "err", bindings |-> bindings, st |-> st, err |-> e]
BindFatal(bindings, st) == [r |-> "fatal", bindings |-> bindings, st |-> st, err |-> NoError]

\* Pattern::bind.  BindList is the loop of the MatchList arm and BindDict the
\* loop of the MatchDict and MatchDictStrict arms, from item i on.
RECURSIVE Bind(_, _, _, _), BindList(_, _, _, _, _), BindDict(_, _, _, _, _)
Bind(pattern, value, bindings, st) ==
    CASE pattern.p = "Wildcard" -> BindOk(bindings, st)
      [] pattern.p = "Identifier" ->
            IF pattern.guard # <<>>
            THEN LET typ == Call("TypeExpressionEval", <<pattern.guard[1], st>>) IN
                 IF typ.r # "some" THEN BindFatal(bindings, typ.st)
                 ELSE IF ~TypeMatches(typ.val, value)
                 THEN BindErr(bindings, typ.st, Err("WrongType", <<pattern.id>>))
                 ELSE BindOk(MapInsert(bindings, pattern.id, value), typ.st)
            ELSE BindOk(MapInsert(bindings, pattern.id, value), st)
      [] pattern.p = "Literal" ->
            IF ValueMatches(value, pattern.lit)
            THEN BindOk(bindings, st)
            ELSE BindErr(bindings, st, Err("NoMatch", <<>>))
      [] pattern.p = "MatchList" ->
            IF value.t # "List"
            THEN BindErr(bindings, st, Err("NoMatch", <<>>))
            ELSE IF Len(pattern.items) = Len(value.items)
            THEN BindList(pattern.items, value.items, 1, bindings, st)
            ELSE BindErr(bindings, st, Err("WrongListLength", <<>>))
      [] pattern.p = "MatchDict" ->
            IF value.t # "Map"
            THEN BindErr(bindings, st, Err("NoMatch", <<>>))
            ELSE BindDict(pattern.items, value.entries, 1, bindings, st)
      [] pattern.p = "MatchDictStrict" ->
            IF value.t # "Map"
            THEN BindErr(bindings, st, Err("NoMatch", <<>>))
            ELSE LET b == BindDict(pattern.items, value.entries, 1, bindings, st) IN
                 IF b.r # "ok" THEN b
                 ELSE IF Len(pattern.items) # Len(value.entries)
                 THEN BindErr(b.bindings, b.st, Err("MatchIsNonStrict", <<>>))
                 ELSE b

BindList(pat_list, val_list, i, bindings, st) ==
    IF i > Len(pat_list) THEN BindOk(bindings, st)
    ELSE LET b == Bind(pat_list[i], val_list[i], bindings, st) IN
         IF b.r # "ok" THEN b
         ELSE BindList(pat_list, val_list, i + 1, b.bindings, b.st)

BindDict(list, val_dict, i, bindings, st) ==
    IF i > Len(list) THEN BindOk(bindings, st)
    ELSE LET val == MapGet(val_dict, list[i].key) IN
         IF ~val.ok THEN BindErr(bindings, st, val.err)
         ELSE LET b == Bind(list[i].pattern, val.val, bindings, st) IN
              IF b.r # "ok" THEN b
              ELSE BindDict(list, val_dict, i + 1, b.bindings, b.st)

----------------------------------------------------------------------------
(* capture: the values of the free variables of a block, taken in the State *)
(* that evaluates the definition                                            *)

CapOk(st, values) == [ok |-> TRUE, st |-> st, values |-> values]
CapFail(st) == [ok |-> FALSE, st |-> st, values |-> <<>>]

\* Literal::capture
LiteralCapture(lit, st, provided, values) ==
    IF lit.l # "Identifier" THEN CapOk(st, values)
    ELSE LET g == TryGet(st, lit.id) IN
         IF g.ok THEN CapOk(st, MapInsert(values, lit.id, g.val))
         ELSE IF lit.id \in provided THEN CapOk(st, values)
         ELSE CapFail(Raise(st, g.err))

\* TypeExpression::capture
TypeExpressionCapture(texpr, st, provided, values) ==
    IF texpr.ty # "Variable" THEN CapOk(st, values)
    ELSE LET g == TryGet(st, texpr.id) IN
         IF g.ok THEN CapOk(st, MapInsert(values, texpr.id, g.val))
         ELSE IF texpr.id \in provided THEN CapOk(st, values)
         ELSE CapFail(Raise(st, g.err))

\* Pattern::capture
PatternCapture(pattern, st, provided, values) ==
    IF pattern.p = "Identifier" /\ pattern.guard # <<>>
    THEN Call("TypeExpressionCapture", <<pattern.guard[1], st, provided, values>>)
    ELSE CapOk(st, values)

\* The sub-expressions that Expression::capture (with List::capture,
\* ListComprehension::capture, DictComprehension::capture, ForClause::capture,
\* KeyValueClause::capture and IfGuard::capture) descends into, in order.
\* An import is not descended into.
CapturedParts(e) ==
    CASE e.e = "List" -> e.items
      [] e.e = "Dict" -> [i \in 1..Len(e.items) |-> e.items[i].value]
      [] e.e = "Conditional" -> <<e.if, e.then, e.else>>
      [] e.e = "BinaryOperation" -> <<e.left, e.right>>
      [] e.e = "Import" -> <<>>
      [] e.e = "ListComprehension" ->
            <<e.expression>>
                \o [i \in 1..Len(e.for_clauses) |-> e.for_clauses[i].expression]
                \o e.if_guard
      [] e.e = "DictComprehension" ->
            <<e.key, e.value>>
                \o [i \in 1..Len(e.for_clauses) |-> e.for_clauses[i].expression]
                \o e.if_guard

RECURSIVE CaptureAll(_, _, _, _, _), BindingsCapture(_, _, _, _, _)

\* Expression::capture
ExpressionCapture(e, st, provided, values) ==
    IF e.e = "Literal"
    THEN LiteralCapture(e.lit, st, provided, values)
    ELSE Call("CaptureAll", <<CapturedParts(e), 1, st, provided, values>>)

CaptureAll(exprs, i, st, provided, values) ==
    IF i > Len(exprs) THEN CapOk(st, values)
    ELSE LET c == Call("ExpressionCapture", <<exprs[i], st, provided, values>>) IN
         IF ~c.ok THEN c
         ELSE CaptureAll(exprs, i + 1, c.st, provided, c.values)

\* Binding::capture; `provided` in the result is the grown vector
BindingCapture(binding, st, provided, values) ==
    CASE binding.b = "PatternMatchDefinition" ->
            LET p == Call("PatternCapture", <<binding.pattern, st, provided, values>>)
                prov == provided \cup PatternProvided(binding.pattern)
                            \cup {binding.identifier}
            IN
            IF ~p.ok THEN [ok |-> FALSE, st |-> p.st, values |-> <<>>, provided |-> prov]
            ELSE LET c == Call("BlockCapture", <<binding.block, p.st, prov, p.values>>) IN
                 [ok |-> c.ok, st |-> c.st, values |-> c.values, provided |-> prov]
      [] binding.b = "Destructuring" ->
            LET p == Call("PatternCapture", <<binding.pattern, st, provided, values>>)
                prov == provided \cup PatternProvided(binding.pattern)
            IN
            IF ~p.ok THEN [ok |-> FALSE, st |-> p.st, values |-> <<>>, provided |-> prov]
            ELSE LET c == Call("BlockCapture", <<binding.block, p.st, prov, p.values>>) IN
                 [ok |-> c.ok, st |-> c.st, values |-> c.values, provided |-> prov]
      [] binding.b = "TypeDefinition" ->
            LET prov == provided \cup {binding.identifier}
                c == Call("TypeExpressionCapture", <<binding.type_expression, st, prov, values>>)
            IN
            [ok |-> c.ok, st |-> c.st, values |-> c.values, provided |-> prov]

BindingsCapture(bindings, i, st, provided, values) ==
    IF i > Len(bindings)
    THEN [ok |-> TRUE, st |-> st, values |-> values, provided |-> provided]
    ELSE LET c == Call("BindingCapture", <<bindings[i], st, provided, values>>) IN
         IF ~c.ok THEN c
         ELSE BindingsCapture(bindings, i + 1, c.st, c.provided, c.values)

\* Block::capture
BlockCapture(block, st, provided, values) ==
    LET b == Call("BindingsCapture", <<block.bindings, 1, st, provided, values>>) IN
    IF ~b.ok THEN CapFail(b.st)
    ELSE Call("ExpressionCapture", <<block.expression, b.st, b.provided, b.values>>)

----------------------------------------------------------------------------
(* eval *)

\* PartialEq of Value (derived); an IndexMap equals another with the same
\* entries in any order
RECURSIVE ValueEq(_, _)
ValueEq(a, b) ==
    IF a.t # b.t THEN FALSE
    ELSE CASE a.t = "Float" -> F64Eq(a.float, b.float)
           [] a.t = "List" ->
                /\ Len(a.items) = Len(b.items)
                /\ \A i \in 1..Len(a.items) : ValueEq(a.items[i], b.items[i])
           [] a.t = "Map" ->
                /\ Len(a.entries) = Len(b.entries)
                /\ \A i \in 1..Len(a.entries) :
                      \E j \in 1..Len(b.entries) :
                         /\ a.entries[i][1] = b.entries[j][1]
                         /\ ValueEq(a.entries[i][2], b.entries[j][2])
           [] a.t = "PatternMatches" ->
                /\ a.id = b.id
                /\ Len(a.pats) = Len(b.pats)
                /\ \A i \in 1..Len(a.pats) :
                      /\ a.pats[i].pattern = b.pats[i].pattern
                      /\ a.pats[i].block = b.pats[i].block
                      /\ DOMAIN a.pats[i].captures = DOMAIN b.pats[i].captures
                      /\ \A k \in DOMAIN a.pats[i].captures :
                            ValueEq(a.pats[i].captures[k], b.pats[i].captures[k])
           [] OTHER -> a = b

\* the iteration order of the HashMap this evaluation creates next
HashOrder(st) ==
    LET n == st.host.maps + 1 IN
    st.host.orders[IF n <= Len(st.host.orders) THEN n ELSE Len(st.host.orders)]

\* HashMap::insert
HashInsert(entries, key, value) ==
    IF \E i \in 1..Len(entries) : entries[i][1] = key
    THEN [i \in 1..Len(entries) |->
             IF entries[i][1] = key THEN <<key, value>> ELSE entries[i]]
    ELSE Append(entries, <<key, value>>)

\* HashMap::into_iter collected into an IndexMap: the entries in the order
\* `order` gives to the keys
RECURSIVE HashIter(_, _)
HashIter(entries, order) ==
    IF Len(order) = 0 THEN <<>>
    ELSE SelectSeq(entries, LAMBDA kv : kv[1] = order[1]) \o HashIter(entries, Tail(order))

RECURSIVE DispatchFrom(_, _, _, _, _, _, _), ListEval(_, _, _, _, _), DictEval(_, _, _, _, _)

\* PatternMatch::match; `ran` says whether the block was evaluated
PatternMatchMatch(pm, arg, st, d) ==
    LET b == Call("Bind", <<pm.pattern, arg, pm.captures, st>>) IN
    CASE b.r = "fatal" ->
            [r |-> "none", val |-> ValueNull, st |-> b.st, err |-> NoError, ran |-> FALSE]
      [] b.r = "err" ->
            [r |-> "err", val |-> ValueNull, st |-> b.st, err |-> b.err, ran |-> FALSE]
      [] b.r = "ok" ->
            IF d >= StackLimit
            THEN [r |-> "overflow", val |-> ValueNull, st |-> b.st, err |-> NoError,
                  ran |-> TRUE]
            ELSE LET out == Call("BlockEval", <<pm.block, NewLocal(b.st, b.bindings), d + 1>>) IN
                 [r |-> IF out.r = "some" THEN "ok" ELSE out.r, val |-> out.val,
                  st |-> Rejoin(b.st, out.st), err |-> NoError, ran |-> TRUE]

\* the loop over the alternatives in BinaryOperation::eval, from alternative i
\* on; `tried` lists the alternatives matched against so far
DispatchFrom(pats, i, arg, st, d, tried, last_error) ==
    IF i > Len(pats)
    THEN [r |-> "nomatch", val |-> ValueNull, st |-> st, tried |-> tried,
          ran |-> <<>>, err |-> last_error]
    ELSE LET m == Call("PatternMatchMatch", <<pats[i], arg, st, d>>) IN
         IF m.r = "err"
         THEN DispatchFrom(pats, i + 1, arg, m.st, d, Append(tried, i), m.err)
         ELSE [r |-> IF m.r = "ok" THEN "found" ELSE m.r, val |-> m.val, st |-> m.st,
               tried |-> Append(tried, i), ran |-> IF m.ran THEN <<i>> ELSE <<>>,
               err |-> NoError]

\* what an application did, for the log
ApplyEvent(id, pats, arg, st, d, found) ==
    [ev |-> "apply", id |-> id, pats |-> pats, arg |-> arg, scope |-> Scope(st),
     d |-> d, tried |-> found.tried, ran |-> found.ran, r |-> found.r,
     val |-> found.val, err |-> found.err]

\* the event in the log of the State the application leaves, with the error
\* slot and the context stack of that State
Observed(st, ev) == Log(st, ev @@ [error |-> st.error, contexts |-> st.contexts])

\* mutant: the context frame is popped when no alternative matched, too
Dispatched_ContextPopped(found, ev) ==
    CASE found.r = "found" -> Some(found.val, Observed(PopCtx(found.st), ev))
      [] found.r = "nomatch" -> None(Observed(Raise(PopCtx(found.st), found.err), ev))
      [] found.r = "none" -> None(Observed(found.st, ev))
      [] found.r = "overflow" -> Overflow(Observed(found.st, ev))
      [] found.r = "panic" -> Panic(Observed(found.st, ev))

\* the outcome of the (PatternMatches, Juxtaposition, arg) arm once the loop is over
Dispatched(found, ev) ==
    CASE found.r = "found" -> Some(found.val, Observed(PopCtx(found.st), ev))
      [] found.r = "nomatch" -> None(Observed(Raise(found.st, found.err), ev))
      [] found.r = "none" -> None(Observed(found.st, ev))
      [] found.r = "overflow" -> Overflow(Observed(found.st, ev))
      [] found.r = "panic" -> Panic(Observed(found.st, ev))

\* mutant: the alternatives are tried from the last one defined
Juxtapose_LastFirst(id, pats, arg, st, d) ==
    LET st1 == PushCtx(st, <<"SubstitutingPattern", id>>)
        rev == [i \in 1..Len(pats) |-> pats[Len(pats) + 1 - i]]
        found == Call("DispatchFrom", <<rev, 1, arg, st1, d, <<>>, NoError>>)
    IN
    Dispatched(found, ApplyEvent(id, pats, arg, st1, d, found))

\* BinaryOperation::eval, the (PatternMatches, Juxtaposition, arg) arm
Juxtapose(id, pats, arg, st, d) ==
    LET st1 == PushCtx(st, <<"SubstitutingPattern", id>>)
        found == Call("DispatchFrom", <<pats, 1, arg, st1, d, <<>>, NoError>>)
    IN
    Dispatched(found, ApplyEvent(id, pats, arg, st1, d, found))

\* NativePatternMatch::match
NativePatternMatchMatch(id, arg, st) ==
    LET st1 == Log(PushCtx(st, <<"SubstitutingPattern", id>>),
                   [ev |-> "native", id |-> id, arg |-> arg, scope |-> Scope(st)])
        value == NativeFunc(id, arg)
    IN
    IF NativeUnreachable(id, arg) THEN Panic(st1)
    ELSE IF value.ok THEN Some(value.val, PopCtx(st1))
    ELSE None(Raise(st1, value.err))

\* BinaryOperation::eval, the match on (left, op, right)
Operate(left, op, right, st, d) ==
    IF left.t = "PatternMatches" /\ op = "Juxtaposition"
    THEN Call("Juxtapose", <<left.id, left.pats, right, st, d>>)
    ELSE IF left.t = "NativePatternMatch" /\ op = "Juxtaposition"
    THEN NativePatternMatchMatch(left.id, right, st)
    ELSE IF op = "Juxtaposition" /\ right.t = "List"
    THEN LET x == ExtractPath(left, right.items) IN
         IF x.ok THEN Some(x.val, st) ELSE None(Raise(st, x.err))
    ELSE IF op = "Default"
    THEN Some(IF left.t = "Null" THEN right ELSE left, st)
    ELSE IF op = "Or" /\ left.t = "Bool" /\ right.t = "Bool"
    THEN Some(ValueBool(left.b \/ right.b), st)
    ELSE IF op = "And" /\ left.t = "Bool" /\ right.t = "Bool"
    THEN Some(ValueBool(left.b /\ right.b), st)
    ELSE IF op = "Equals"
    THEN Some(ValueBool(ValueEq(left, right)), st)
    ELSE IF op = "NotEquals"
    THEN Some(ValueBool(~ValueEq(left, right)), st)
    ELSE IF op = "TypeMatches" /\ right.t = "Type"
    THEN Some(ValueBool(TypeMatches(right.ty, left)), st)
    ELSE None(Raise(st, Err("CannotApplyOperator", <<op>>)))

\* mutant: the right operand is evaluated before the left one is looked at
BinaryOperationEval_Eager(e, st, d) ==
    LET left == Call("ExpressionEval", <<e.left, st, d>>) IN
    IF left.r # "some" THEN left
    ELSE LET right == Call("ExpressionEval", <<e.right, left.st, d>>) IN
         IF right.r # "some" THEN right
         ELSE IF \/ e.op = "Or" /\ left.val = ValueBool(TRUE)
                 \/ e.op = "And" /\ left.val = ValueBool(FALSE)
                 \/ e.op = "Default" /\ left.val # ValueNull
         THEN Some(left.val, right.st)
         ELSE Call("Operate", <<left.val, e.op, right.val, right.st, d>>)

\* BinaryOperation::eval
BinaryOperationEval(e, st, d) ==
    LET left == Call("ExpressionEval", <<e.left, st, d>>) IN
    IF left.r # "some" THEN left
    ELSE IF \/ e.op = "Or" /\ left.val = ValueBool(TRUE)
            \/ e.op = "And" /\ left.val = ValueBool(FALSE)
            \/ e.op = "Default" /\ left.val # ValueNull
    THEN left
    ELSE LET right == Call("ExpressionEval", <<e.right, left.st, d>>) IN
         IF right.r # "some" THEN right
         ELSE Call("Operate", <<left.val, e.op, right.val, right.st, d>>)

\* List::eval, from item i on
ListEval(items, i, evald, st, d) ==
    IF i > Len(items) THEN Some(ValueList(evald), st)
    ELSE LET item == Call("ExpressionEval", <<items[i], st, d>>) IN
         IF item.r # "some" THEN item
         ELSE ListEval(items, i + 1, Append(evald, item.val), item.st, d)

\* Dict::eval, from item i on (the items of the programs are key-value pairs
\* without guard); IndexMap::insert keeps the position of a key it replaces
DictEval(items, i, evald, st, d) ==
    IF i > Len(items) THEN Some(ValueMap(evald), st)
    ELSE LET item == Call("ExpressionEval", <<items[i].value, st, d>>) IN
         IF item.r # "some" THEN item
         ELSE DictEval(items, i + 1, HashInsert(evald, items[i].key, item.val), item.st, d)

\* Import::eval in the State of the evaluator.  The evaluator runs under the
\* hermetic loader, for which Environment::load returns Err for every path;
\* a value that Environment::load returns is taken as it is.
ImportEvalIn(e, st, d) ==
    LET st1 == PushCtx(st, <<"LoadingImport", e.path>>)
        loading == Call("EnvironmentLoad", <<NoModule, e.format, e.path, "missing">>)
    IN
    IF loading.tag = "err"
    THEN IF e.default # <<>>
         THEN LET value == Call("ExpressionEval", <<e.default[1], st1, d>>) IN
              IF value.r # "some" THEN value ELSE Some(value.val, PopCtx(value.st))
         ELSE None(Raise(st1, loading.err))
    ELSE Some(ValueImported(loading.val), PopCtx(st1))

RECURSIVE Iterate(_, _, _, _, _, _), ExpressionEval(_, _, _), BindingsEval(_, _, _, _)

\* the State a comprehension evaluates one iteration in (the struct literal
\* of run_iter)
IterState(st, new_bindings) ==
    [bindings |-> new_bindings, inherited |-> <<st.bindings>> \o st.inherited,
     error |-> NoError, contexts |-> <<>>, host |-> st.host]

\* KeyValueClause::eval: the pair <<key, value>>
KeyValueClauseEval(e, st, d) ==
    LET key == Call("ExpressionEval", <<e.key, st, d>>) IN
    IF key.r # "some" THEN key
    ELSE IF key.val.t # "Text" THEN None(Raise(key.st, Err("NonTextKey", <<>>)))
    ELSE LET value == Call("ExpressionEval", <<e.value, key.st, d>>) IN
         IF value.r # "some" THEN value
         ELSE Some(<<key.val.text, value.val>>, value.st)

\* what one iteration of a comprehension did, for the log
IterEvent(comp, arg, st, out) ==
    [ev |-> "iter", pattern |-> comp.for_clauses[1].pattern, arg |-> arg, scope |-> Scope(st),
     guard |-> out.guard, yield |-> out.yield, r |-> out.r]

\* the end of run_iter when the guard or the yielded expression failed: the
\* contexts and the error of the iteration's State go to the enclosing State
IterFailed(st, new_state, guard, yield) ==
    [r |-> "none", val |-> ValueNull,
     st |-> [Rejoin(st, new_state) EXCEPT !.contexts = @ \o new_state.contexts,
                                           !.error = new_state.error],
     guard |-> guard, yield |-> yield]

\* run_iter from the evaluation of the yielded expression (or key-value
\* clause) on
IterYield(comp, st, new_state, d, guard) ==
    LET outcome == IF comp.e = "ListComprehension"
                   THEN Call("ExpressionEval", <<comp.expression, new_state, d>>)
                   ELSE Call("KeyValueClauseEval", <<comp, new_state, d>>)
    IN
    CASE outcome.r = "some" ->
            [r |-> "value", val |-> outcome.val, st |-> Rejoin(st, outcome.st),
             guard |-> guard, yield |-> TRUE]
      [] outcome.r = "none" -> IterFailed(st, outcome.st, guard, TRUE)
      [] outcome.r \in {"overflow", "panic"} ->
            [r |-> outcome.r, val |-> ValueNull, st |-> Rejoin(st, outcome.st),
             guard |-> guard, yield |-> TRUE]

\* ListComprehension::run_iter and DictComprehension::run_iter, which differ
\* in what they yield only.  r is "value" for Some(Some(val)), "skip" for
\* Some(None), "none" for None.
RunIterBody(comp, arg, st, d) ==
    LET b == Call("Bind", <<comp.for_clauses[1].pattern, arg, <<>>, st>>) IN
    IF b.r = "fatal"
    THEN [r |-> "skip", val |-> ValueNull, st |-> b.st, guard |-> FALSE, yield |-> FALSE]
    ELSE LET new_state == IterState(b.st, b.bindings) IN
         IF comp.if_guard = <<>>
         THEN Call("IterYield", <<comp, b.st, new_state, d, FALSE>>)
         ELSE LET if_evalued == Call("ExpressionEval", <<comp.if_guard[1], new_state, d>>) IN
              CASE if_evalued.r \in {"overflow", "panic"} ->
                      [r |-> if_evalued.r, val |-> ValueNull,
                       st |-> Rejoin(b.st, if_evalued.st), guard |-> TRUE, yield |-> FALSE]
                [] if_evalued.r = "none" -> IterFailed(b.st, if_evalued.st, TRUE, FALSE)
                [] if_evalued.r = "some" ->
                      LET is_true == IsTrue(if_evalued.val) IN
                      IF ~is_true.ok
                      THEN IterFailed(b.st, Raise(if_evalued.st, is_true.err), TRUE, FALSE)
                      ELSE IF is_true.val
                      THEN Call("IterYield", <<comp, b.st, if_evalued.st, d, TRUE>>)
                      ELSE [r |-> "skip", val |-> ValueNull,
                            st |-> Rejoin(b.st, if_evalued.st),
                            guard |-> TRUE, yield |-> FALSE]

RunIter(comp, arg, st, d) ==
    LET out == Call("RunIterBody", <<comp, arg, st, d>>) IN
    [r |-> out.r, val |-> out.val, st |-> Log(out.st, IterEvent(comp, arg, st, out))]

\* the `for item in iter` loop of ListComprehension::eval (values are pushed)
\* and DictComprehension::eval (pairs are inserted), from item i on
Iterate(comp, items, i, iterated, st, d) ==
    IF i > Len(items) THEN [r |-> "some", val |-> iterated, st |-> st]
    ELSE LET it == Call("RunIter", <<comp, items[i], st, d>>) IN
         CASE it.r = "value" ->
                 Iterate(comp, items, i + 1,
                         IF comp.e = "ListComprehension"
                         THEN Append(iterated, it.val)
                         ELSE HashInsert(iterated, it.val[1], it.val[2]),
                         it.st, d)
           [] it.r = "skip" -> Iterate(comp, items, i + 1, iterated, it.st, d)
           [] it.r = "none" -> None(it.st)
           [] it.r = "overflow" -> Overflow(it.st)
           [] it.r = "panic" -> Panic(it.st)

\* ListComprehension::eval
ListComprehensionEval(e, st, d) ==
    IF Len(e.for_clauses) > 1 THEN Panic(st) ELSE
    LET iterable == Call("ExpressionEval", <<e.for_clauses[1].expression, st, d>>) IN
    IF iterable.r # "some" THEN iterable
    ELSE LET iter == ValueIter(iterable.val) IN
         IF ~iter.ok THEN None(Raise(iterable.st, iter.err))
         ELSE LET done == Call("Iterate", <<e, iter.val, 1, <<>>, iterable.st, d>>) IN
              IF done.r # "some" THEN done
              ELSE Some(ValueList(done.val), done.st)

\* DictComprehension::eval: the pairs are collected in a HashMap, and the Map
\* has the HashMap's iteration order
DictComprehensionEval(e, st, d) ==
    IF Len(e.for_clauses) > 1 THEN Panic(st) ELSE
    LET iterable == Call("ExpressionEval", <<e.for_clauses[1].expression, st, d>>) IN
    IF iterable.r # "some" THEN iterable
    ELSE LET iter == ValueIter(iterable.val) IN
         IF ~iter.ok THEN None(Raise(iterable.st, iter.err))
         ELSE LET order == HashOrder(iterable.st)
                  created == [iterable.st EXCEPT !.host.maps = @ + 1]
                  done == Call("Iterate", <<e, iter.val, 1, <<>>, created, d>>)
              IN
              IF done.r # "some" THEN done
              ELSE Some(ValueMap(HashIter(done.val, order)), done.st)

\* Expression::eval
ExpressionEval(e, st, d) ==
    CASE e.e = "Literal" -> LiteralEval(e.lit, st)
      [] e.e = "List" -> Call("ListEval", <<e.items, 1, <<>>, st, d>>)
      [] e.e = "Dict" -> Call("DictEval", <<e.items, 1, <<>>, st, d>>)
      [] e.e = "Conditional" ->
            LET if_evalued == ExpressionEval(e.if, st, d) IN
            IF if_evalued.r # "some" THEN if_evalued
            ELSE LET is_true == IsTrue(if_evalued.val) IN
                 IF ~is_true.ok THEN None(Raise(if_evalued.st, is_true.err))
                 ELSE ExpressionEval(IF is_true.val THEN e.then ELSE e.else,
                                     if_evalued.st, d)
      [] e.e = "BinaryOperation" -> Call("BinaryOperationEval", <<e, st, d>>)
      [] e.e = "Import" -> Call("ImportEvalIn", <<e, st, d>>)
      [] e.e = "ListComprehension" -> Call("ListComprehensionEval", <<e, st, d>>)
      [] e.e = "DictComprehension" -> Call("DictComprehensionEval", <<e, st, d>>)

\* HashMap::extend / IndexMap::extend
MapExtend(m, n) ==
    [x \in (DOMAIN m) \cup (DOMAIN n) |-> IF x \in DOMAIN n THEN n[x] ELSE m[x]]

\* mutant: the name being defined counts as provided, as in Binding::capture
Provided_WithName(binding) == PatternProvided(binding.pattern) \cup {binding.identifier}

\* the `provided` vector of Binding::eval: what the pattern binds
Provided(binding) == PatternProvided(binding.pattern)

\* mutant: the names bound before the mismatch are added to the scope
BindFailed_BindingsKept(b) ==
    None(Raise([b.st EXCEPT !.bindings = MapExtend(@, b.bindings)], b.err))

\* Binding::eval, the Destructuring arm when the pattern did not bind
BindFailed(b) == None(Raise(b.st, b.err))

\* what a destructuring let did, for the log: the State the pattern was bound
\* in and the bindings of that State afterwards
LetEvent(binding, value, st, b, out) ==
    [ev |-> "let", pattern |-> binding.pattern, value |-> value, scope |-> Scope(st),
     r |-> b.r, bindings |-> out.st.bindings]

\* Binding::eval
BindingEval(binding, st, d) ==
    CASE binding.b = "PatternMatchDefinition" ->
            LET st1 == PushCtx(st, <<"EvaluatingBinding", binding.identifier>>)
                provided == Provided(binding)
                captured == Call("BlockCapture", <<binding.block, st1, provided, <<>> >>)
            IN
            IF ~captured.ok THEN None(captured.st)
            ELSE LET new == PatternMatch(binding.pattern, binding.block, captured.values)
                     bound == captured.st.bindings
                     matches ==
                        IF binding.identifier \in DOMAIN bound
                        THEN IF bound[binding.identifier].t = "PatternMatches"
                             THEN Append(bound[binding.identifier].pats, new)
                             ELSE <<new>>
                        ELSE <<new>>
                 IN
                 Some(ValueNull,
                      PopCtx([captured.st EXCEPT !.bindings =
                                MapInsert(@, binding.identifier,
                                    ValuePatternMatches(binding.identifier, matches))]))
      [] binding.b = "Destructuring" ->
            LET evaluated == Call("BlockEval", <<binding.block, st, d>>) IN
            IF evaluated.r # "some" THEN evaluated
            ELSE LET b == Call("Bind", <<binding.pattern, evaluated.val, <<>>, evaluated.st>>)
                     out == IF b.r = "fatal" THEN None(b.st)
                            ELSE IF b.r = "err" THEN BindFailed(b)
                            ELSE Some(ValueNull,
                                      [b.st EXCEPT !.bindings = MapExtend(@, b.bindings)])
                 IN
                 [out EXCEPT !.st = Log(@, LetEvent(binding, evaluated.val, evaluated.st,
                                                    b, out))]
      [] binding.b = "TypeDefinition" ->
            LET resolved_type == Call("TypeExpressionEval", <<binding.type_expression, st>>) IN
            IF resolved_type.r # "some" THEN resolved_type
            ELSE Some(ValueNull,
                      [resolved_type.st EXCEPT !.bindings =
                         MapInsert(@, binding.identifier, ValueType(resolved_type.val))])

BindingsEval(bindings, i, st, d) ==
    IF i > Len(bindings) THEN Some(ValueNull, st)
    ELSE LET b == Call("BindingEval", <<bindings[i], st, d>>) IN
         IF b.r # "some" THEN b ELSE BindingsEval(bindings, i + 1, b.st, d)

\* Block::eval
BlockEval(block, st, d) ==
    LET b == Call("BindingsEval", <<block.bindings, 1, st, d>>) IN
    IF b.r # "some" THEN b ELSE Call("ExpressionEval", <<block.expression, b.st, d>>)

\* A call of one function of the evaluator by another
Call(f, a) ==
    CASE f = "ExpressionCapture" -> ExpressionCapture(a[1], a[2], a[3], a[4])
      [] f = "CaptureAll" -> CaptureAll(a[1], a[2], a[3], a[4], a[5])
      [] f = "BindingCapture" -> BindingCapture(a[1], a[2], a[3], a[4])
      [] f = "BindingsCapture" -> BindingsCapture(a[1], a[2], a[3], a[4], a[5])
      [] f = "BlockCapture" -> BlockCapture(a[1], a[2], a[3], a[4])
      [] f = "Bind" -> Bind(a[1], a[2], a[3], a[4])
      [] f = "TypeExpressionEval" -> TypeExpressionEval(a[1], a[2])
      [] f = "PatternCapture" -> PatternCapture(a[1], a[2], a[3], a[4])
      [] f = "TypeExpressionCapture" -> TypeExpressionCapture(a[1], a[2], a[3], a[4])
      [] f = "EnvironmentLoad" -> EnvironmentLoad(a[1], a[2], a[3], a[4])
      [] f = "PatternMatchMatch" -> PatternMatchMatch(a[1], a[2], a[3], a[4])
      [] f = "DispatchFrom" -> DispatchFrom(a[1], a[2], a[3], a[4], a[5], a[6], a[7])
      [] f = "Juxtapose" -> Juxtapose(a[1], a[2], a[3], a[4], a[5])
      [] f = "Operate" -> Operate(a[1], a[2], a[3], a[4], a[5])
      [] f = "BinaryOperationEval" -> BinaryOperationEval(a[1], a[2], a[3])
      [] f = "ListEval" -> ListEval(a[1], a[2], a[3], a[4], a[5])
      [] f = "DictEval" -> DictEval(a[1], a[2], a[3], a[4], a[5])
      [] f = "ImportEvalIn" -> ImportEvalIn(a[1], a[2], a[3])
      [] f = "KeyValueClauseEval" -> KeyValueClauseEval(a[1], a[2], a[3])
      [] f = "IterYield" -> IterYield(a[1], a[2], a[3], a[4], a[5])
      [] f = "RunIterBody" -> RunIterBody(a[1], a[2], a[3], a[4])
      [] f = "RunIter" -> RunIter(a[1], a[2], a[3], a[4])
      [] f = "Iterate" -> Iterate(a[1], a[2], a[3], a[4], a[5], a[6])
      [] f = "ListComprehensionEval" -> ListComprehensionEval(a[1], a[2], a[3])
      [] f = "DictComprehensionEval" -> DictComprehensionEval(a[1], a[2], a[3])
      [] f = "ExpressionEval" -> ExpressionEval(a[1], a[2], a[3])
      [] f = "BindingEval" -> BindingEval(a[1], a[2], a[3])
      [] f = "BindingsEval" -> BindingsEval(a[1], a[2], a[3], a[4])
      [] f = "BlockEval" -> BlockEval(a[1], a[2], a[3])

\* parser::eval: the Result it returns, or how the process ended instead
\* ("panic": the `expect` on the error slot failed, or a `panic!` was reached;
\* "overflow": the host stack ran out).  `backtracked` says that Block::eval
\* returned None.  `orders` is the iteration order of each HashMap the evaluation
\* creates; the outcome keeps those of the HashMaps it did create.
ParserEval(block, orders) ==
    LET out == Call("BlockEval", <<block, StateNew(NoModule, orders), 0>>)
        status == CASE out.r = "some" -> "value"
                    [] out.r = "overflow" -> "overflow"
                    [] out.r = "panic" -> "panic"
                    [] out.r = "none" ->
                          IF out.st.error = NoError THEN "panic" ELSE "error"
    IN
    [status |-> status,
     backtracked |-> out.r = "none",
     val |-> IF status = "value" THEN out.val ELSE ValueNull,
     err |-> IF status = "error" THEN out.st.error ELSE NoError,
     context |-> IF status = "error" THEN out.st.contexts ELSE <<>>,
     log |-> out.st.host.log,
     orders |-> IF out.st.host.maps = 0 THEN <<>> ELSE orders]

----------------------------------------------------------------------------
(* The programs.  Each family is a template over small sets of patterns,    *)
(* values and expressions.                                                  *)

Id(x) == ExprLiteral(LitIdentifier(x))
Num(i) == ExprLiteral(LitInteger(i))
Str(s) == ExprLiteral(LitText(s))
Apply(f, arg) == ExprBinaryOperation(f, "Juxtaposition", arg)
Just(e) == Block(<<>>, e)
Var(x) == PatIdentifier(x, <<>>)

\* the texts of the programs, which are also the keys of their maps
Texts == {"a", "b"}

\* let f p1 = 1; let f p2 = 2; [f a1, f a2]
DispatchPatterns ==
    {PatLiteral(LitInteger(0)), Var("x"), PatIdentifier("x", <<TyInteger>>),
     PatIdentifier("x", <<TyText>>), PatMatchList(<<Var("x")>>), PatWildcard}

DispatchArgs == {Num(0), Num(1), Str("a"), ExprList(<<Num(0)>>)}

DispatchPrograms ==
    {Block(<<BindingPatternMatchDefinition("f", p1, Just(Num(1))),
             BindingPatternMatchDefinition("f", p2, Just(Num(2)))>>,
           ExprList(<<Apply(Id("f"), a1), Apply(Id("f"), a2)>>)) :
        p1 \in DispatchPatterns, p2 \in DispatchPatterns,
        a1 \in DispatchArgs, a2 \in DispatchArgs}

\* let name = v1; let f p = body; let name = v2; [f a, name]
ShadowValues == {Num(0), Num(1), Str("a")}

ShadowPatterns == {Var("x"), PatWildcard, Var("name")}

ShadowBodies ==
    {Just(Id("name")),
     Just(ExprList(<<Id("name"), Id("x")>>)),
     Just(ExprConditional(ExprLiteral(LitBool(TRUE)), Id("name"), Num(0))),
     Just(ExprBinaryOperation(ExprLiteral(LitNull), "Default", Id("name"))),
     Just(ExprImport(PathA, <<Id("name")>>)),
     Just(ExprListComprehension(Id("name"), <<ForClause(PatWildcard, ExprList(<<Num(0)>>))>>, <<>>)),
     Block(<<BindingDestructuring(Var("y"), Just(Id("name")))>>, Id("y"))}

ShadowArgs == {Num(0), Num(1)}

ShadowPrograms ==
    {Block(<<BindingDestructuring(Var("name"), Just(v1)),
             BindingPatternMatchDefinition("f", p, body),
             BindingDestructuring(Var("name"), Just(v2))>>,
           ExprList(<<Apply(Id("f"), a), Id("name")>>)) :
        v1 \in ShadowValues, v2 \in ShadowValues, p \in ShadowPatterns,
        body \in ShadowBodies, a \in ShadowArgs}

\* let f x = body; f a      and      let f x = body; let g y = f y; g a
RecursionBodies == {Apply(Id("x"), Id("x")), Apply(Id("x"), Num(0)), Id("x")}

RecursionPrograms ==
    {Block(<<BindingPatternMatchDefinition("f", Var("x"), Just(body))>>,
           Apply(Id("f"), a)) :
        body \in RecursionBodies, a \in {Id("f"), Num(0)}}
    \cup
    {Block(<<BindingPatternMatchDefinition("f", Var("x"), Just(body)),
             BindingPatternMatchDefinition("g", Var("y"), Just(Apply(Id("f"), Id("y"))))>>,
           Apply(Id("g"), a)) :
        body \in RecursionBodies, a \in {Id("g"), Id("f"), Num(0)}}

\* [yield for p in iter if guard]  and  {key: value for p in iter}
ForPatterns ==
    {PatLiteral(LitInteger(0)), Var("x"), PatIdentifier("x", <<TyInteger>>),
     PatMatchList(<<Var("x"), PatLiteral(LitInteger(0))>>), PatWildcard,
     PatIdentifier("x", <<TyVariable("T")>>)}

ForIterables ==
    {ExprList(<<Num(0), Num(1)>>),
     ExprList(<<ExprList(<<Num(1), Num(0)>>), ExprList(<<Num(1), Num(1)>>)>>),
     ExprList(<<Str("a"), Num(0)>>),
     Apply(Id("range"), ExprList(<<Num(0), Num(2)>>)),
     Num(0)}

ForYields == {Id("x"), Num(1)}

ForGuards == {<<>>, <<ExprBinaryOperation(Id("x"), "Equals", Num(0))>>}

ListComprehensionPrograms ==
    {Just(ExprListComprehension(yield, <<ForClause(p, iter)>>, guard)) :
        yield \in ForYields, p \in ForPatterns, iter \in ForIterables,
        guard \in ForGuards}

KeyIterables ==
    {ExprList(<<Str("a"), Str("b")>>), ExprList(<<Str("b"), Str("a")>>),
     ExprList(<<Str("a"), Str("a")>>), ExprList(<<Str("a"), Num(0)>>)}

DictComprehensionPrograms ==
    {Just(ExprDictComprehension(key, value, <<ForClause(p, iter)>>, <<>>)) :
        key \in {Id("x"), Str("a")}, value \in {Id("x"), Num(1)},
        p \in {Var("x"), PatIdentifier("x", <<TyText>>)}, iter \in KeyIterables}
    \cup
    {Just(ExprListComprehension(Id("kv"),
              <<ForClause(Var("kv"),
                    ExprDictComprehension(Id("x"), Num(1), <<ForClause(Var("x"), iter)>>,
                                          <<>>))>>,
              <<>>)) :
        iter \in KeyIterables}

\* [yield for x in outer for y in inner]
NestedIterables ==
    {ExprList(<<Num(0), Num(1)>>), ExprList(<<Str("a"), Str("b")>>),
     ExprList(<<Num(0)>>)}

NestedForPrograms ==
    {Just(ExprListComprehension(yield,
              <<ForClause(Var("x"), outer), ForClause(Var("y"), inner)>>, <<>>)) :
        yield \in {ExprList(<<Id("x"), Id("y")>>), Id("y")},
        outer \in NestedIterables, inner \in NestedIterables}
    \cup
    {Just(ExprDictComprehension(Id("x"), Id("y"),
              <<ForClause(Var("x"), ExprList(<<Str("a"), Str("b")>>)),
                ForClause(Var("y"), inner)>>, <<>>)) :
        inner \in NestedIterables}

\* f arg, f a built-in
NativeArguments ==
    {Num(0), ExprList(<<Num(0)>>), ExprList(<<Num(0), Num(2)>>),
     ExprList(<<ExprList(<<Num(0), Num(1)>>), ExprList(<<Str("a"), Str("b")>>)>>),
     ExprList(<<Num(0), Num(1), Num(2)>>)}

NativePrograms ==
    {Just(Apply(Id(f), arg)) : f \in BuiltInNames, arg \in NativeArguments}

\* type T = t1; let f (x: T) = 1; <T bound again>; f arg
AliasRebindings ==
    {<<>>, <<BindingTypeDefinition("T", TyInteger)>>, <<BindingTypeDefinition("T", TyText)>>,
     <<BindingDestructuring(Var("T"), Just(Num(0)))>>}

TypeGuardPrograms ==
    {Block(<<BindingTypeDefinition("T", t1),
             BindingPatternMatchDefinition("f", PatIdentifier("x", <<TyVariable("T")>>),
                                           Just(Num(1)))>> \o again,
           Apply(Id("f"), arg)) :
        t1 \in {TyInteger, TyText}, again \in AliasRebindings, arg \in {Num(0), Str("a")}}

\* <f bound before, or not>; let f p = f 0; f arg
EarlierBindings ==
    {<<>>,
     <<BindingPatternMatchDefinition("f", PatLiteral(LitInteger(0)), Just(Num(1)))>>,
     <<BindingDestructuring(Var("f"), Just(Num(5)))>>}

SelfReferencePrograms ==
    {Block(earlier \o <<BindingPatternMatchDefinition("f", p, Just(Apply(Id("f"), Num(0))))>>,
           Apply(Id("f"), arg)) :
        earlier \in EarlierBindings,
        p \in {Var("x"), PatIdentifier("x", <<TyInteger>>), PatWildcard, Var("f")},
        arg \in {Num(0), Num(1), Id("f")}}

\* the maps of the programs: {}, {a: 0}, {a: 1}, {b: 0}, {a: 0, b: 0},
\* {a: 0, b: 0, c: 0}, {a: "a"}
Dicts ==
    {ExprDict(<<>>),
     ExprDict(<<KeyValue("a", Num(0))>>),
     ExprDict(<<KeyValue("a", Num(1))>>),
     ExprDict(<<KeyValue("b", Num(0))>>),
     ExprDict(<<KeyValue("a", Num(0)), KeyValue("b", Num(0))>>),
     ExprDict(<<KeyValue("a", Num(0)), KeyValue("b", Num(0)), KeyValue("c", Num(0))>>),
     ExprDict(<<KeyValue("a", Str("a"))>>)}

\* let f { k1: p1, k2: p2 } = 1; f dict      and the same with `, ..`
DictSubPatterns == {Var("x"), PatLiteral(LitInteger(0))}

DictItems ==
    {<<MatchDictItem("a", pa)>> : pa \in DictSubPatterns}
    \cup
    {<<MatchDictItem("a", pa), MatchDictItem(k, pb)>> :
        pa \in DictSubPatterns, pb \in DictSubPatterns, k \in {"a", "b"}}

DictPatternPrograms ==
    {Block(<<BindingPatternMatchDefinition("f", pat, Just(Num(1)))>>, Apply(Id("f"), dict)) :
        pat \in {PatMatchDictStrict(items) : items \in DictItems}
                  \cup {PatMatchDict(items) : items \in DictItems},
        dict \in Dicts}

\* type T = record; let f (x: T) = true; let f _ = false; [dict : T, f dict]
\* and      type T = record; let x: T = dict; true
RecordItems == {<<<<"a", TyInteger>>>>, <<<<"a", TyInteger>>, <<"b", TyInteger>>>>}

RecordTypes ==
    {TyStrictRecord(items) : items \in RecordItems}
        \cup {TyRecord(items) : items \in RecordItems}

RecordPrograms ==
    {Block(<<BindingTypeDefinition("T", ty),
             BindingPatternMatchDefinition("f", PatIdentifier("x", <<TyVariable("T")>>),
                                           Just(ExprLiteral(LitBool(TRUE)))),
             BindingPatternMatchDefinition("f", PatWildcard,
                                           Just(ExprLiteral(LitBool(FALSE))))>>,
           ExprList(<<ExprBinaryOperation(dict, "TypeMatches", Id("T")),
                      Apply(Id("f"), dict)>>)) :
        ty \in RecordTypes, dict \in Dicts}
    \cup
    {Block(<<BindingTypeDefinition("T", ty),
             BindingDestructuring(PatIdentifier("x", <<TyVariable("T")>>), Just(dict))>>,
           ExprLiteral(LitBool(TRUE))) :
        ty \in RecordTypes, dict \in Dicts}

\* let literal = scalar; 1
Scalars ==
    {LitNull, LitBool(TRUE), LitBool(FALSE), LitInteger(0), LitInteger(1),
     LitFloat(Halves(1)), LitFloat(Halves(2)), LitText("a"), LitText("b")}

LiteralPatternPrograms ==
    {Block(<<BindingDestructuring(PatLiteral(lit), Just(ExprLiteral(scalar)))>>, Num(1)) :
        lit \in Scalars, scalar \in Scalars}

\* let f x = x; let g y = y; f left <op> right
ShortCircuitOperators == {"Or", "And", "Default"}

LeftOperands == {ExprLiteral(LitBool(TRUE)), ExprLiteral(LitBool(FALSE)),
                 ExprLiteral(LitNull), Num(0)}

RightOperands ==
    {Apply(Id("g"), ExprLiteral(LitBool(TRUE))), Apply(Id("g"), Num(0)),
     Apply(Num(0), Num(0)), ExprImport(PathA, <<>>)}

ShortCircuitPrograms ==
    {Block(<<BindingPatternMatchDefinition("f", Var("x"), Just(Id("x"))),
             BindingPatternMatchDefinition("g", Var("y"), Just(Id("y")))>>,
           ExprBinaryOperation(Apply(Id("f"), left), op, right)) :
        left \in LeftOperands, op \in ShortCircuitOperators, right \in RightOperands}

\* max numbers, min numbers
Numbers ==
    {Num(i) : i \in {-2, -1, 1, 2}}
        \cup {ExprLiteral(LitFloat(Halves(h))) : h \in {-3, 1}}

NumberLists ==
    {ExprList(<<a>>) : a \in Numbers} \cup {ExprList(<<a, b>>) : a \in Numbers, b \in Numbers}

ExtremePrograms ==
    {Just(Apply(Id(f), numbers)) : f \in {"max", "min"}, numbers \in NumberLists}

\* let c = 0; let f p1 = b1; let a = f; let f = 0; let c = v; let name p2 = b2;
\* a == name      and      native1 == native2
EqualityPatterns == {Var("x"), PatWildcard}

EqualityBlocks == {Just(Num(1)), Just(Num(2)), Just(Id("c"))}

EqualityPrograms ==
    {Block(<<BindingDestructuring(Var("c"), Just(Num(0))),
             BindingPatternMatchDefinition("f", p1, b1),
             BindingDestructuring(Var("a"), Just(Id("f"))),
             BindingDestructuring(Var("f"), Just(Num(0))),
             BindingDestructuring(Var("c"), Just(Num(v))),
             BindingPatternMatchDefinition(name, p2, b2)>>,
           ExprBinaryOperation(Id("a"), "Equals", Id(name))) :
        p1 \in EqualityPatterns, p2 \in EqualityPatterns, b1 \in EqualityBlocks,
        b2 \in EqualityBlocks, v \in {0, 1}, name \in {"f", "g"}}
    \cup
    {Just(ExprBinaryOperation(Id(n1), "Equals", Id(n2))) :
        n1 \in BuiltInNames, n2 \in BuiltInNames}

\* let x = 5; let f pattern = 1; let f second = x; let r = f value;
\* let pattern = value; [r, x]
PartialPatterns ==
    {PatMatchList(<<Var("x"), PatLiteral(LitInteger(0))>>),
     PatMatchList(<<Var("x"), PatIdentifier("y", <<TyText>>)>>),
     PatMatchList(<<Var("x"), Var("y")>>),
     PatMatchDictStrict(<<MatchDictItem("a", Var("x"))>>)}

PartialValues ==
    {ExprList(<<Num(1), Num(1)>>), ExprList(<<Num(1), Num(0)>>),
     ExprList(<<Num(1), Str("a")>>), ExprList(<<Num(1)>>),
     ExprDict(<<KeyValue("a", Num(1)), KeyValue("b", Num(0))>>)}

FailedBindPrograms ==
    {Block(<<BindingDestructuring(Var("x"), Just(Num(5))),
             BindingPatternMatchDefinition("f", pat, Just(Num(1))),
             BindingPatternMatchDefinition("f", second, Just(Id("x"))),
             BindingDestructuring(Var("r"), Just(Apply(Id("f"), value))),
             BindingDestructuring(pat, Just(value))>>,
           ExprList(<<Id("r"), Id("x")>>)) :
        pat \in PartialPatterns, second \in {PatWildcard, Var("y")},
        value \in PartialValues}

Programs ==
    DispatchPrograms \cup ShadowPrograms \cup RecursionPrograms
        \cup ListComprehensionPrograms \cup DictComprehensionPrograms
        \cup NestedForPrograms \cup NativePrograms \cup TypeGuardPrograms
        \cup SelfReferencePrograms \cup DictPatternPrograms \cup RecordPrograms
        \cup LiteralPatternPrograms \cup ShortCircuitPrograms \cup ExtremePrograms
        \cup EqualityPrograms \cup FailedBindPrograms

----------------------------------------------------------------------------
(* Evaluating a program *)

\* the orders in which a HashMap can iterate over the keys
HashOrders ==
    {s \in [1..Cardinality(Texts) -> Texts] : \A i, j \in DOMAIN s : s[i] = s[j] => i = j}

\* ryan::from_str with a hermetic Environment: the program is parsed into
\* `program` and handed to parser::eval
Evaluate(orders) ==
    /\ program # <<>>
    /\ Len(runs) < MaxRuns
    /\ runs' = Append(runs, ParserEval(program, orders))
    /\ UNCHANGED <<program, importVars, loaderVars, decodeVars, jsonVars, arithVars>>

\* Environment::builder().import_loader(NoImport): nothing loaded, nothing
\* being loaded
HermeticEnvironment ==
    /\ loaderName = "NoImport"
    /\ fs = <<>>
    /\ loaded = <<>>
    /\ import_stack = <<>>
    /\ loadCalls = <<>>
    /\ frames = <<>>
    /\ result = Running
    /\ nImports = 0
    /\ last = NoLast

InitEval ==
    /\ program \in Programs
    /\ runs = <<>>
    /\ HermeticEnvironment
    /\ LoaderIdle
    /\ DecoderIdle
    /\ JsonIdle
    /\ ArithIdle

NextEval == \E orders \in [1..MaxHashMaps -> HashOrders] : Evaluate(orders)

SpecEval == InitEval /\ [][NextEval]_vars

----------------------------------------------------------------------------
(* Properties of the evaluator *)

Runs == 1..Len(runs)

\* the positions in the log of run n of the events of one kind
Events(n, kind) == {k \in 1..Len(runs[n].log) : runs[n].log[k].ev = kind}

\* how alternative i of the applied value binds the argument of application a
BindsArg(a, i, orders) ==
    Bind(a.pats[i].pattern, a.arg, a.pats[i].captures, Rescope(a.scope, orders)).r

\* Application a tried the alternatives in definition order up to the first
\* one that binds the argument, evaluated the block of that one only and
\* returned its outcome; when no alternative binds, nothing was evaluated and
\* the application failed.
InDefinitionOrder(a, orders) ==
    LET binds == {i \in 1..Len(a.pats) : BindsArg(a, i, orders) = "ok"}
        first == CHOOSE i \in binds : \A j \in binds : i <= j
    IN
    IF binds = {}
    THEN /\ a.tried = [i \in 1..Len(a.pats) |-> i]
         /\ a.ran = <<>>
         /\ a.r = "nomatch"
    ELSE /\ a.tried = [i \in 1..first |-> i]
         /\ a.ran = <<first>>
         /\ LET m == PatternMatchMatch(a.pats[first], a.arg,
                                       Rescope(a.scope, orders), a.d)
            IN
            /\ a.r = (IF m.r = "ok" THEN "found" ELSE m.r)
            /\ a.val = m.val

\* C5: every application `f arg` of a pattern-match value whose alternatives'
\* patterns bind or fail to bind (no type guard fails to evaluate) tries the
\* alternatives in definition order, returns the result of the block of the
\* first alternative whose pattern binds arg and evaluates no other block;
\* alternatives that do not bind fall through to the next.
C5_DispatchOrder ==
    \A n \in Runs : \A k \in Events(n, "apply") :
        LET a == runs[n].log[k] IN
        (\A i \in 1..Len(a.pats) : BindsArg(a, i, runs[n].orders) # "fatal")
            => InDefinitionOrder(a, runs[n].orders)

\* one evaluation applies f twice: once the first alternative does not bind
\* and the second does, once both bind and only the first block is evaluated
C5_Witness ==
    \E n \in Runs : \E k1, k2 \in Events(n, "apply") :
        LET a1 == runs[n].log[k1]
            a2 == runs[n].log[k2]
        IN
        /\ Len(a1.pats) = 2 /\ a1.tried = <<1, 2>> /\ a1.ran = <<2>> /\ a1.r = "found"
        /\ a1.val = ValueInteger(2)
        /\ Len(a2.pats) = 2 /\ a2.tried = <<1>> /\ a2.ran = <<1>> /\ a2.r = "found"
        /\ a2.val = ValueInteger(1)
        /\ BindsArg(a2, 2, runs[n].orders) = "ok"

\* the program up to the second binding of `name`, applying f
BeforeRebinding(p) == Block(SubSeq(p.bindings, 1, 2), p.expression.items[1])

\* the value `name` is bound to the second time
Rebound(p) == LiteralEval(p.bindings[3].block.expression.lit, StateNew(NoModule, <<>>)).val

\* C6: in `let name = v1; let f p = body; let name = v2; [f a, name]` the
\* application of f evaluates as it does before the rebinding (body sees the
\* v1 that was bound when f was defined) and the later use of name sees v2.
C6_CapturesKeptAfterRebinding ==
    \A n \in Runs :
        program \in ShadowPrograms =>
            LET ref == ParserEval(BeforeRebinding(program), runs[n].orders) IN
            IF ref.status = "value"
            THEN /\ runs[n].status = "value"
                 /\ runs[n].val = ValueList(<<ref.val, Rebound(program)>>)
            ELSE /\ runs[n].status = ref.status
                 /\ runs[n].err = ref.err

\* C7: every evaluation halts with a value or an error; in particular no
\* evaluation nests applications beyond every bound.
C7_EvaluationHalts ==
    \A n \in Runs : runs[n].status # "overflow"

\* C8: two evaluations of the same program under the same (hermetic) loader
\* have the same outcome: the same value with the same map key order, or the
\* same error.
C8_SameOutcome ==
    \A m, n \in Runs :
        /\ runs[m].status = runs[n].status
        /\ runs[m].val = runs[n].val
        /\ runs[m].err = runs[n].err
        /\ runs[m].context = runs[n].context

\* C10: an element of the iterated container that the `for` pattern does not
\* bind (Pattern::bind returns a BindError) is skipped: neither the guard nor
\* the yielded expression is evaluated, nothing is contributed, no error is
\* raised.
C10_UnboundElementSkipped ==
    \A n \in Runs : \A k \in Events(n, "iter") :
        LET a == runs[n].log[k] IN
        Bind(a.pattern, a.arg, <<>>, Rescope(a.scope, runs[n].orders)).r = "err"
            => ~a.guard /\ ~a.yield /\ a.r = "skip"

RECURSIVE Flatten(_)
Flatten(lists) ==
    IF lists = <<>> THEN <<>> ELSE Head(lists).items \o Flatten(Tail(lists))

\* [[yield for y in inner] for x in outer]: the two loops of a two-clause
\* list comprehension written as two one-clause comprehensions
AsNestedLoops(p) ==
    LET c == p.expression IN
    Just(ExprListComprehension(
            ExprListComprehension(c.expression, <<c.for_clauses[2]>>, c.if_guard),
            <<c.for_clauses[1]>>, <<>>))

\* C11: a list comprehension with two `for` clauses evaluates as two nested
\* loops in source order (the first clause outermost), its results collected
\* in the order of the nested iteration.
C11_NestedLoops ==
    \A n \in Runs :
        (program \in NestedForPrograms /\ program.expression.e = "ListComprehension") =>
            LET ref == ParserEval(AsNestedLoops(program), runs[n].orders) IN
            /\ ref.status = "value"
            /\ runs[n].status = "value"
            /\ runs[n].val = ValueList(Flatten(ref.val.items))


\* the elements of a sequence in the order of their first occurrence
RECURSIVE FirstOccurrences(_, _)
FirstOccurrences(items, seen) ==
    IF items = <<>> THEN <<>>
    ELSE IF Head(items) \in seen THEN FirstOccurrences(Tail(items), seen)
    ELSE <<Head(items)>> \o FirstOccurrences(Tail(items), seen \cup {Head(items)})

\* [key for p in iter]: the keys a dict comprehension inserts, in the order
\* it inserts them
InsertedKeys(p) ==
    LET c == p.expression IN
    Just(ExprListComprehension(c.key, c.for_clauses, c.if_guard))

\* C12: the map a dict comprehension evaluates to iterates over its keys in
\* the order of their first insertion.
C12_InsertionOrder ==
    \A n \in Runs :
        (program \in DictComprehensionPrograms /\ program.expression.e = "DictComprehension"
            /\ runs[n].status = "value") =>
            LET keys == ParserEval(InsertedKeys(program), runs[n].orders)
                entries == runs[n].val.entries
            IN
            /\ keys.status = "value"
            /\ [i \in 1..Len(entries) |-> ValueText(entries[i][1])]
                  = FirstOccurrences(keys.val.items, {})

\* C13: the host function of a native pattern match is invoked only with an
\* argument that matches the pattern attached to the native; an application
\* to any other argument ends with an evaluation error.
C13_NativePreValidation ==
    \A n \in Runs :
        /\ \A k \in Events(n, "native") :
              LET a == runs[n].log[k] IN
              Bind(NativePattern(a.id), a.arg, <<>>, Rescope(a.scope, runs[n].orders)).r = "ok"
        /\ program \in NativePrograms => runs[n].status \in {"value", "error"}

\* the program without the bindings that follow the definition of f
BeforeAliasRebinding(p) == Block(SubSeq(p.bindings, 1, 2), p.expression)

\* C18: in `type T = t1; let f (x: T) = 1; <T bound again>; f a` the
\* application of f has the outcome it has without the later binding of T:
\* the guard of f denotes the type T had where f was defined.
C18_GuardsClosedOver ==
    \A n \in Runs :
        program \in TypeGuardPrograms =>
            LET ref == ParserEval(BeforeAliasRebinding(program), runs[n].orders) IN
            /\ runs[n].status = ref.status
            /\ runs[n].val = ref.val
            /\ runs[n].err = ref.err

\* the binding `let f p = f 0` of a program of SelfReferencePrograms
Defined(p) == p.bindings[Len(p.bindings)]

\* In run n of `<earlier>; let f p = f 0; f a`: when f is unbound where it
\* is defined the definition fails with the undefined-variable error and f
\* is never applied; otherwise no application evaluated inside a block of f
\* has the alternative being defined among its alternatives.
NotItself(n) ==
    IF Len(program.bindings) = 1
    THEN /\ runs[n].status = "error"
         /\ runs[n].err = Err("Undefined", <<"f">>)
         /\ Events(n, "apply") = {}
    ELSE \A k \in Events(n, "apply") :
            LET a == runs[n].log[k] IN
            a.d > 0 => \A i \in 1..Len(a.pats) : a.pats[i].block # Defined(program).block

----------------------------------------------------------------------------
(* Properties of the evaluator: errors, patterns, operators *)

\* C21: whenever Block::eval returns None to parser::eval, the error slot of
\* the root State is set, so that eval returns an EvalError; this includes
\* failures inside the block of an applied alternative and inside an
\* iteration of a comprehension.
C21_ErrorAtRoot ==
    \A n \in Runs : runs[n].backtracked => runs[n].status = "error"

\* the keys that the items of a dict pattern declare, and the keys of a map
DeclaredKeys(items) == {items[i].key : i \in 1..Len(items)}
MapKeys(map) == {map.entries[i][1] : i \in 1..Len(map.entries)}

\* every declared key is present in the map with a value its sub-pattern binds
ItemsBind(items, map, scope) ==
    \A i \in 1..Len(items) :
        LET val == MapGet(map.entries, items[i].key) IN
        val.ok /\ Bind(items[i].pattern, val.val, <<>>, scope).r = "ok"

\* C22: a strict dictionary pattern binds a map iff every declared key is
\* present with a value its sub-pattern binds and the map has no other key; a
\* map with an extra key (whose declared keys all bind) is rejected with
\* MatchIsNonStrict; for every pattern, also one declaring a key twice.
C22_StrictDictPattern ==
    \A n \in Runs : \A k \in Events(n, "apply") :
        LET a == runs[n].log[k]
            pat == a.pats[1].pattern
            binds == ItemsBind(pat.items, a.arg, Rescope(a.scope, runs[n].orders))
        IN
        (Len(a.pats) = 1 /\ pat.p = "MatchDictStrict" /\ a.arg.t = "Map") =>
            /\ a.r = "found" <=> (binds /\ MapKeys(a.arg) \subseteq DeclaredKeys(pat.items))
            /\ (binds /\ ~(MapKeys(a.arg) \subseteq DeclaredKeys(pat.items)))
                  => a.err = Err("MatchIsNonStrict", <<>>)

\* a map is of a record type: every declared key has a value of its declared
\* type and, for a strict record, the map has exactly the declared keys
RecordAccepts(ty, map) ==
    /\ map.t = "Map"
    /\ \A i \in 1..Len(ty.items) :
          LET val == MapGet(map.entries, ty.items[i][1]) IN
          val.ok /\ TypeMatches(ty.items[i][2], val.val)
    /\ ty.ty = "StrictRecord" =>
          MapKeys(map) = {ty.items[i][1] : i \in 1..Len(ty.items)}

\* C23: a strict record type matches a map iff the key set of the map is the
\* declared key set and every value matches its declared type, whether asked
\* by `v : T`, by dispatch on a guarded pattern or by the type guard of a let;
\* the non-strict record type accepts extra keys.
C23_RecordTypes ==
    \A n \in Runs :
        program \in RecordPrograms =>
            LET ty == program.bindings[1].type_expression IN
            /\ \A k \in Events(n, "apply") :
                  LET accepted == ValueBool(RecordAccepts(ty, runs[n].log[k].arg)) IN
                  /\ runs[n].status = "value"
                  /\ runs[n].val = ValueList(<<accepted, accepted>>)
            /\ \A k \in Events(n, "let") :
                  runs[n].log[k].r = "ok" <=> RecordAccepts(ty, runs[n].log[k].value)

\* the value is the scalar variant of the literal, with equal content
SameScalar(value, lit) ==
    \/ value.t = "Null" /\ lit.l = "Null"
    \/ value.t = "Bool" /\ lit.l = "Bool" /\ value.b = lit.b
    \/ value.t = "Integer" /\ lit.l = "Integer" /\ value.int = lit.int
    \/ value.t = "Float" /\ lit.l = "Float" /\ F64Eq(value.float, lit.float)
    \/ value.t = "Text" /\ lit.l = "Text" /\ value.text = lit.text

\* C24: a literal pattern (integer, float, boolean, text or null) binds a
\* value iff the value is the same scalar variant with equal content, and it
\* adds no name to the bindings.
C24_LiteralPattern ==
    \A n \in Runs : \A k \in Events(n, "let") :
        LET e == runs[n].log[k] IN
        e.pattern.p = "Literal" =>
            /\ e.r = "ok" <=> SameScalar(e.value, e.pattern.lit)
            /\ e.bindings = e.scope.bindings

\* the BindError alternative i of the applied value gives for the argument of
\* application a
BindErrorOf(a, i, orders) ==
    Bind(a.pats[i].pattern, a.arg, a.pats[i].captures, Rescope(a.scope, orders)).err

\* no alternative of the value applied in a binds the argument: each gives a
\* BindError
NoneBinds(a, orders) == \A i \in 1..Len(a.pats) : BindsArg(a, i, orders) = "err"

\* C25: when no alternative binds the argument, the application fails, every
\* alternative was tried and no block was evaluated; the error it raises is
\* the BindError of the last alternative in definition order and the
\* "substituting pattern" frame it pushed is left on the context stack; when
\* the application is evaluated in the root State, eval reports that error
\* with that frame on top of the traceback.
C25_ExhaustedDispatch ==
    \A n \in Runs : \A k \in Events(n, "apply") :
        LET a == runs[n].log[k] IN
        NoneBinds(a, runs[n].orders) =>
            /\ a.r = "nomatch"
            /\ a.tried = [i \in 1..Len(a.pats) |-> i]
            /\ a.ran = <<>>
            /\ a.error = BindErrorOf(a, Len(a.pats), runs[n].orders)
            /\ a.contexts = a.scope.contexts
            /\ a.contexts[Len(a.contexts)] = <<"SubstitutingPattern", a.id>>
            /\ a.scope.inherited = <<>> =>
                  /\ runs[n].status = "error"
                  /\ runs[n].err = a.error
                  /\ runs[n].context =
                        <<<<"RunningFile", NoModule>>, <<"SubstitutingPattern", a.id>>>>

\* an application in the root State of a value with two alternatives that
\* give different BindErrors has failed
C25_Witness ==
    \E n \in Runs : \E k \in Events(n, "apply") :
        LET a == runs[n].log[k] IN
        /\ Len(a.pats) = 2
        /\ NoneBinds(a, runs[n].orders)
        /\ BindErrorOf(a, 1, runs[n].orders) # BindErrorOf(a, 2, runs[n].orders)
        /\ a.scope.inherited = <<>>
        /\ runs[n].status = "error"

\* the identifiers of the pattern-match values applied in run n, in order
Applied(n) ==
    LET applies == SelectSeq(runs[n].log, LAMBDA ev : ev.ev = "apply") IN
    [k \in 1..Len(applies) |-> applies[k].id]

\* the operator does not evaluate its right operand after this left value
ShortCircuits(op, left) ==
    \/ op = "Or" /\ left = ValueBool(TRUE)
    \/ op = "And" /\ left = ValueBool(FALSE)
    \/ op = "Default" /\ left # ValueNull

\* C26: in `f left <op> right` with op one of `or`, `and`, `?`, the right
\* operand is not evaluated when the operator short-circuits on the left
\* value (true for `or`, false for `and`, non-null for `?`): its application,
\* its error or its import does not happen and the left value is returned.
\* Otherwise the right operand is evaluated exactly once, after the left one.
C26_ShortCircuit ==
    \A n \in Runs :
        program \in ShortCircuitPrograms =>
            LET op == program.expression.op
                right == program.expression.right
                left == ParserEval(Just(program.expression.left.right), <<>>).val
            IN
            IF ShortCircuits(op, left)
            THEN /\ runs[n].status = "value"
                 /\ runs[n].val = left
                 /\ Applied(n) = <<"f">>
            ELSE /\ right.e = "Import" =>
                    /\ runs[n].status = "error"
                    /\ runs[n].context[Len(runs[n].context)] = <<"LoadingImport", right.path>>
                 /\ right = Apply(Num(0), Num(0)) =>
                    /\ runs[n].status = "error"
                    /\ runs[n].err = Err("CannotApplyOperator", <<"Juxtaposition">>)
                 /\ right.e = "Import" \/ right = Apply(Num(0), Num(0)) =>
                    Applied(n) = <<"f">>
                 /\ right \in {Apply(Id("g"), arg) : arg \in {ExprLiteral(LitBool(TRUE)), Num(0)}} =>
                    Applied(n) = <<"f", "g">>

\* a run has skipped a right operand whose evaluation fails (an import or an
\* error) and returned the left value
C26_Witness ==
    /\ program \in ShortCircuitPrograms
    /\ program.expression.right \in {ExprImport(PathA, <<>>), Apply(Num(0), Num(0))}
    /\ \E n \in Runs : runs[n].status = "value" /\ Applied(n) = <<"f">>

\* a number, as a count of halves
InHalves(v) == IF v.t = "Integer" THEN 2 * v.int ELSE v.float.halves

\* a non-empty list of numbers none of which is NaN
IsNumberList(v) ==
    /\ v.t = "List"
    /\ Len(v.items) > 0
    /\ \A i \in 1..Len(v.items) :
          \/ v.items[i].t = "Integer"
          \/ v.items[i].t = "Float" /\ ~v.items[i].float.nan

\* C28: max and min applied to a non-empty list of numbers return an element
\* of the list, the greatest and the least one respectively.
C28_Extremes ==
    \A n \in Runs : \A k \in Events(n, "native") :
        LET a == runs[n].log[k] IN
        (program \in ExtremePrograms /\ IsNumberList(a.arg)) =>
            /\ runs[n].status = "value"
            /\ \E i \in 1..Len(a.arg.items) : ValueEq(runs[n].val, a.arg.items[i])
            /\ \A i \in 1..Len(a.arg.items) :
                  IF a.id = "max"
                  THEN InHalves(a.arg.items[i]) <= InHalves(runs[n].val)
                  ELSE InHalves(runs[n].val) <= InHalves(a.arg.items[i])

\* C29: two pattern-match values are `==` iff they have the same identifier
\* and the same sequence of patterns, whatever the blocks and the captures of
\* their alternatives; two native pattern matches are `==` iff identifier and
\* pattern are equal.
C29_PatternMatchEquality ==
    \A n \in Runs :
        program \in EqualityPrograms =>
            /\ runs[n].status = "value"
            /\ IF program.bindings = <<>>
               THEN LET n1 == program.expression.left.lit.id
                        n2 == program.expression.right.lit.id
                    IN runs[n].val =
                          ValueBool(n1 = n2 /\ NativePattern(n1) = NativePattern(n2))
               ELSE LET first == program.bindings[2]
                        second == program.bindings[6]
                    IN runs[n].val =
                          ValueBool(/\ first.identifier = second.identifier
                                    /\ first.pattern = second.pattern)

\* the bindings Pattern::bind has produced for the let of event e when it
\* returns
BoundByLet(e, orders) == Bind(e.pattern, e.value, <<>>, Rescope(e.scope, orders)).bindings

\* C30: a destructuring let whose pattern does not bind leaves the bindings of
\* its State as they were, whatever its sub-patterns bound before the
\* mismatch; and in `let x = 5; let f pattern = 1; let f second = x; ...
\* f value`, when the first alternative does not bind the value, the second
\* one sees the x of its captures, not what the first alternative bound.
C30_FailedBindLeavesNoTrace ==
    \A n \in Runs :
        /\ \A k \in Events(n, "let") :
              LET e == runs[n].log[k] IN
              e.r # "ok" => e.bindings = e.scope.bindings
        /\ program \in FailedBindPrograms =>
              \A k \in Events(n, "apply") :
                  LET a == runs[n].log[k] IN
                  a.tried = <<1, 2>> => a.r = "found" /\ a.val = ValueInteger(5)

\* one run in which the first alternative bound x before it failed and the
\* second alternative ran, and in which the let bound x before it failed
C30_Witness ==
    \E n \in Runs : \E k1 \in Events(n, "apply") : \E k2 \in Events(n, "let") :
        LET a == runs[n].log[k1]
            e == runs[n].log[k2]
        IN
        /\ program \in FailedBindPrograms
        /\ a.tried = <<1, 2>> /\ a.ran = <<2>>
        /\ "x" \in DOMAIN Bind(a.pats[1].pattern, a.arg, a.pats[1].captures,
                               Rescope(a.scope, runs[n].orders)).bindings
        /\ e.r = "err"
        /\ "x" \in DOMAIN BoundByLet(e, runs[n].orders)
        /\ BoundByLet(e, runs[n].orders)["x"] # e.scope.bindings["x"]

----------------------------------------------------------------------------
(* Part III: the loader combinators.  The loader under test is the loader   *)
(* `loaderName` over the files `wrapped.files`, wrapped in the combinators  *)
(* `wrapped.layers` (the last one outermost).                               *)

\* combinators wrapped around the base loader
MaxLayers == 2

\* the absolute paths `load` is called with
LoadPaths == {PathA, PathB}

\* Result<Box<dyn Read>, Box<dyn Error>>: the content the reader gives
LoadOk(content) == [ok |-> TRUE, content |-> content, err |-> NoError]
LoadErr(e) == [ok |-> FALSE, content |-> <<>>, err |-> e]

\* Override { loader, overrides }, as built by `override`, `block` and
\* `override_many`: a path maps to Some(text) (<<text>>) or to None (<<>>)
OverrideLayer(overrides) == [kind |-> "Override", overrides |-> overrides]

\* Filter { loader, filter }: the filter as the set of paths it accepts
FilterLayer(filter) == [kind |-> "Filter", filter |-> filter]

Overrides == UNION {[D -> {<<>>, <<"text">>}] : D \in SUBSET LoadPaths}

Layers ==
    {OverrideLayer(o) : o \in Overrides} \cup {FilterLayer(f) : f \in SUBSET LoadPaths}

LayerStacks == UNION {[1..n -> Layers] : n \in 0..MaxLayers}

\* `load` of the base loader (DefaultImporter::load or NoImport::load)
BaseLoad(path) ==
    IF LoaderLoad(IF path \in wrapped.files THEN "ryan" ELSE "missing")
    THEN LoadOk(<<"file", path>>)
    ELSE LoadErr(Err(IF loaderName = "NoImport" THEN "NoImport" ELSE "Io", path))

\* What one activation of `load` does: it returns a result, or calls `load`
\* of the loader at `level` (0 is the base loader, n is combinator n).

\* Override::load, for the combinator at level n
OverrideLoad(n, layer, path) ==
    IF path \in DOMAIN layer.overrides
    THEN IF layer.overrides[path] # <<>>
         THEN [do |-> "return", result |-> LoadOk(<<"cursor", layer.overrides[path][1]>>)]
         ELSE [do |-> "return", result |-> LoadErr(Err("ImportPathIsOverridden", path))]
    ELSE [do |-> "call", level |-> n]

\* Filter::load, for the combinator at level n
FilterLoad(n, layer, path) ==
    IF path \in layer.filter
    THEN [do |-> "call", level |-> n]
    ELSE [do |-> "return", result |-> LoadErr(Err("ImportPathIsOverridden", path))]

\* dyn ImportLoader::load of the activation on top of the stack
ActivationLoad ==
    LET f == loadStack[Len(loadStack)] IN
    IF f.level = 0
    THEN [do |-> "return", result |-> BaseLoad(f.path)]
    ELSE IF wrapped.layers[f.level].kind = "Override"
    THEN OverrideLoad(f.level, wrapped.layers[f.level], f.path)
    ELSE FilterLoad(f.level, wrapped.layers[f.level], f.path)

\* Environment::load calls `load` of the outermost loader
LoadCall(path) ==
    /\ loadStack = <<>>
    /\ loadOutcome = <<>>
    /\ wrapped # <<>>
    /\ loadStack' = <<[level |-> Len(wrapped.layers), path |-> path]>>
    /\ UNCHANGED <<wrapped, loadOutcome, importVars, evalVars, decodeVars, jsonVars, arithVars>>

\* the activation on top calls `load` again
LoadNested ==
    /\ loadStack # <<>>
    /\ ActivationLoad.do = "call"
    /\ Len(loadStack) < StackLimit
    /\ loadStack' = Append(loadStack, [level |-> ActivationLoad.level,
                                       path |-> loadStack[Len(loadStack)].path])
    /\ UNCHANGED <<wrapped, loadOutcome, importVars, evalVars, decodeVars, jsonVars, arithVars>>

\* the activation on top returns; every caller returns what its callee
\* returned, so the outermost call returns the same result
LoadReturn ==
    /\ loadStack # <<>>
    /\ ActivationLoad.do = "return"
    /\ loadOutcome' = <<[path |-> loadStack[1].path, status |-> "returned",
                         result |-> ActivationLoad.result]>>
    /\ loadStack' = <<>>
    /\ UNCHANGED <<wrapped, importVars, evalVars, decodeVars, jsonVars, arithVars>>

\* the activation on top calls `load` again and the host stack has run out:
\* the process ends, the outermost call does not return
LoadOverflow ==
    /\ loadStack # <<>>
    /\ ActivationLoad.do = "call"
    /\ Len(loadStack) >= StackLimit
    /\ loadOutcome' = <<[path |-> loadStack[1].path, status |-> "overflow",
                         result |-> LoadErr(NoError)]>>
    /\ loadStack' = <<>>
    /\ UNCHANGED <<wrapped, importVars, evalVars, decodeVars, jsonVars, arithVars>>

InitLoader ==
    /\ loaderName \in Loaders
    /\ fs = <<>>
    /\ loaded = <<>>
    /\ import_stack = <<>>
    /\ loadCalls = <<>>
    /\ frames = <<>>
    /\ result = Running
    /\ nImports = 0
    /\ last = NoLast
    /\ EvalIdle
    /\ DecoderIdle
    /\ JsonIdle
    /\ ArithIdle
    /\ wrapped \in [files : SUBSET LoadPaths, layers : LayerStacks]
    /\ loadStack = <<>>
    /\ loadOutcome = <<>>

NextLoader ==
    \/ \E path \in LoadPaths : LoadCall(path)
    \/ LoadNested
    \/ LoadReturn
    \/ LoadOverflow

SpecLoader == InitLoader /\ [][NextLoader]_vars

----------------------------------------------------------------------------
(* Properties of the loader combinators *)

\* what `load` of the loader at level n returns when every combinator hands
\* the paths it neither overrides nor rejects to the loader it wraps
RECURSIVE Delegated(_, _)
Delegated(n, path) ==
    IF n = 0 THEN BaseLoad(path)
    ELSE LET layer == wrapped.layers[n] IN
         IF layer.kind = "Override"
         THEN IF path \in DOMAIN layer.overrides
              THEN IF layer.overrides[path] # <<>>
                   THEN LoadOk(<<"cursor", layer.overrides[path][1]>>)
                   ELSE LoadErr(Err("ImportPathIsOverridden", path))
              ELSE Delegated(n - 1, path)
         ELSE IF path \in layer.filter
              THEN Delegated(n - 1, path)
              ELSE LoadErr(Err("ImportPathIsOverridden", path))

\* C9: a `load` through combinators returns, and returns the override text
\* for an overridden path, ImportPathIsOverridden for a blocked or
\* filtered-out path, and what the wrapped loader returns for any other path.
C9_CombinatorsDelegate ==
    loadOutcome # <<>> =>
        /\ loadOutcome[1].status = "returned"
        /\ loadOutcome[1].result = Delegated(Len(wrapped.layers), loadOutcome[1].path)


----------------------------------------------------------------------------
(* Part IV: decoding a value into a host integer (de.rs) *)

\* An i64 is written as its four 16-bit limbs in two's complement, lowest
\* limb first.
I64(l1, l2, l3, l4) == <<l1, l2, l3, l4>>

\* the i64 of an integer n with -2^31 <= n < 2^31
I64Of(n) ==
    LET ext == IF n < 0 THEN 65535 ELSE 0 IN
    I64(n % 65536, (n \div 65536) % 65536, ext, ext)

\* the integer targets of the decoder: MaterializedType::I8 .. U64
IntegerTargets ==
    {[ty |-> "I8", signed |-> TRUE, bits |-> 8],
     [ty |-> "I16", signed |-> TRUE, bits |-> 16],
     [ty |-> "I32", signed |-> TRUE, bits |-> 32],
     [ty |-> "I64", signed |-> TRUE, bits |-> 64],
     [ty |-> "U8", signed |-> FALSE, bits |-> 8],
     [ty |-> "U16", signed |-> FALSE, bits |-> 16],
     [ty |-> "U32", signed |-> FALSE, bits |-> 32],
     [ty |-> "U64", signed |-> FALSE, bits |-> 64]}

\* `int as T`: the low T.bits bits of int, as limbs
AsTarget(int, T) ==
    CASE T.bits = 8 -> <<int[1] % 256>>
      [] T.bits = 16 -> <<int[1]>>
      [] T.bits = 32 -> <<int[1], int[2]>>
      [] T.bits = 64 -> int

\* `x as i64` for x of type T: sign extension of a signed x, zero extension
\* of an unsigned one (a u64 keeps its 64 bits)
AsI64(x, T) ==
    LET top == IF T.bits = 8 THEN x[1] >= 128 ELSE x[Len(x)] >= 32768
        ext == IF T.signed /\ top THEN 65535 ELSE 0
        low == IF T.bits = 8 /\ T.signed /\ top THEN <<65280 + x[1]>> ELSE x
    IN
    low \o [i \in 1..(4 - Len(x)) |-> ext]

\* the decoder's result
Visited(T, x) == [r |-> "visit", ty |-> T.ty, x |-> x]
RangeError(T, int) == [r |-> "RangeError", ty |-> T.ty, x |-> int]
TypeError(T) == [r |-> "TypeError", ty |-> T.ty, x |-> <<>>]
NotDecoded == <<>>

\* RyanDeserializer::deserialize_i8 .. deserialize_u64
DeserializeInteger(T) ==
    /\ deValue # <<>>
    /\ visited = NotDecoded
    /\ visited' =
          IF deValue.t = "Integer"
          THEN IF T.ty = "I64" \/ AsI64(AsTarget(deValue.int, T), T) = deValue.int
               THEN Visited(T, AsTarget(deValue.int, T))
               ELSE RangeError(T, deValue.int)
          ELSE TypeError(T)
    /\ UNCHANGED <<deValue, importVars, evalVars, loaderVars, jsonVars, arithVars>>

\* the values handed to the decoder: the integers around the limits of each
\* target, and a value that is no integer
DecodedIntegers ==
    {I64Of(n) : n \in {0, 1, -1, 127, 128, -128, -129, 255, 256, 32767, 32768,
                       -32768, -32769, 65535, 65536, 2147483647, -2147483647 - 1}}
    \cup {I64(0, 32768, 0, 0), I64(65535, 32767, 65535, 65535),
          I64(65535, 65535, 0, 0), I64(0, 0, 1, 0),
          I64(65535, 65535, 65535, 32767), I64(0, 0, 0, 32768)}

InitDecode ==
    /\ deValue \in {ValueInteger(int) : int \in DecodedIntegers} \cup {ValueText("a")}
    /\ visited = NotDecoded
    /\ loaderName \in Loaders
    /\ fs = <<>>
    /\ loaded = <<>>
    /\ import_stack = <<>>
    /\ loadCalls = <<>>
    /\ frames = <<>>
    /\ result = Running
    /\ nImports = 0
    /\ last = NoLast
    /\ EvalIdle
    /\ LoaderIdle
    /\ JsonIdle
    /\ ArithIdle

NextDecode == \E T \in IntegerTargets : DeserializeInteger(T)

SpecDecode == InitDecode /\ [][NextDecode]_vars

----------------------------------------------------------------------------
(* Properties of the decoder *)

\* a <= b for two i64: the sign bit flipped, then limb by limb from the top
I64Leq(a, b) ==
    LET key(x) == <<(x[4] + 32768) % 65536, x[3], x[2], x[1]>>
        ka == key(a)
        kb == key(b)
    IN
    \/ ka = kb
    \/ \E i \in 1..4 : ka[i] < kb[i] /\ \A j \in 1..(i - 1) : ka[j] = kb[j]

\* the least and the greatest number of a target, as i64 (the greatest u64
\* is beyond every i64)
TargetMin(T) ==
    CASE ~T.signed -> I64(0, 0, 0, 0)
      [] T.bits = 8 -> I64(65408, 65535, 65535, 65535)
      [] T.bits = 16 -> I64(32768, 65535, 65535, 65535)
      [] T.bits = 32 -> I64(0, 32768, 65535, 65535)
      [] T.bits = 64 -> I64(0, 0, 0, 32768)

TargetMax(T) ==
    CASE T.bits = 64 -> I64(65535, 65535, 65535, 32767)
      [] T.bits = 8 -> IF T.signed THEN I64(127, 0, 0, 0) ELSE I64(255, 0, 0, 0)
      [] T.bits = 16 -> IF T.signed THEN I64(32767, 0, 0, 0) ELSE I64(65535, 0, 0, 0)
      [] T.bits = 32 -> IF T.signed THEN I64(65535, 32767, 0, 0)
                        ELSE I64(65535, 65535, 0, 0)

InRange(int, T) == I64Leq(TargetMin(T), int) /\ I64Leq(int, TargetMax(T))

TargetOf(ty) == CHOOSE T \in IntegerTargets : T.ty = ty

\* C14: decoding an Integer into an integer target visits the number when it
\* lies in the target's range and fails with RangeError otherwise.
C14_RangeChecked ==
    (visited # NotDecoded /\ deValue.t = "Integer") =>
        LET T == TargetOf(visited.ty) IN
        IF InRange(deValue.int, T)
        THEN visited = Visited(T, AsTarget(deValue.int, T))
        ELSE visited = RangeError(T, deValue.int)

----------------------------------------------------------------------------
(* Part V: JSON documents as programs (parser::parse, utils::unescape) *)

\* One unit of a JSON string: the characters of the document and the code
\* points they stand for (RFC 8259, section 7)
Unit(raw, means) == [raw |-> raw, means |-> means]

JsonUnits ==
    {Unit(<<"a">>, <<97>>), Unit(<<"k">>, <<107>>),
     Unit(<<"\\", "n">>, <<10>>), Unit(<<"\\", "/">>, <<47>>),
     Unit(<<"\\", "\"">>, <<34>>), Unit(<<"\\", "\\">>, <<92>>),
     Unit(<<"\\", "u", "0", "0", "4", "1">>, <<65>>),
     Unit(<<"\\", "u", "0", "0", "E", "9">>, <<233>>),
     Unit(<<"\\", "u", "d", "8", "3", "d", "\\", "u", "d", "e", "0", "0">>, <<128512>>)}

\* the JSON strings of at most MaxUnits units
JsonStrings == UNION {[1..n -> JsonUnits] : n \in 0..MaxUnits}

\* a JSON number: its characters and the integer they stand for
JsonNumbers ==
    {Unit(<<"0">>, 0), Unit(<<"7">>, 7), Unit(<<"-", "1", "2">>, -12),
     Unit(<<"1", "0", "5">>, 105)}

JNull == [j |-> "null"]
JBool(s) == [j |-> "bool", s |-> s]
JNumber(n) == [j |-> "number", n |-> n]
JList(items) == [j |-> "list", items |-> items]
JObject(members) == [j |-> "object", members |-> members]

JsonScalars == {JNull, JBool("true"), JBool("false")} \cup {JNumber(n) : n \in JsonNumbers}

\* the documents: a scalar, a list of scalars, an object with one member
\* (a scalar or a list under any key), an object with two members
JsonDocuments ==
    JsonScalars
    \cup {JList(<<a, b>>) : a, b \in JsonScalars}
    \cup {JObject(<<[key |-> k, value |-> v]>>) :
            k \in JsonStrings, v \in {JNull, JNumber(Unit(<<"7">>, 7)),
                                      JList(<<JBool("true")>>)}}
    \cup {JObject(<<[key |-> <<Unit(<<"a">>, <<97>>)>>, value |-> JNull],
                    [key |-> <<Unit(<<"k">>, <<107>>)>>, value |-> JObject(<<>>)]>>)}

\* the characters of a sequence of units
RECURSIVE Raw(_)
Raw(units) == IF units = <<>> THEN <<>> ELSE Head(units).raw \o Raw(Tail(units))

\* Pair::as_str of a `text` token: the string between its double quotes
AsStr(units) == <<"\"">> \o Raw(units) \o <<"\"">>

\* char::to_digit(16): the digit, or -1 for None
ToDigit(ch) ==
    LET lower == <<"0", "1", "2", "3", "4", "5", "6", "7", "8", "9",
                   "a", "b", "c", "d", "e", "f">>
        upper == <<"A", "B", "C", "D", "E", "F">>
    IN
    IF \E i \in 1..16 : lower[i] = ch THEN (CHOOSE i \in 1..16 : lower[i] = ch) - 1
    ELSE IF \E i \in 1..6 : upper[i] = ch THEN (CHOOSE i \in 1..6 : upper[i] = ch) + 9
    ELSE -1

\* the code point of a character that stands for itself
CodePoint(ch) == IF ch = "a" THEN 97 ELSE IF ch = "k" THEN 107 ELSE 63

\* char::from_u32 is None for a surrogate
IsChar(code) == ~(code >= 55296 /\ code <= 57343)

\* utils::unescape, from character i on, `string` being what was pushed
RECURSIVE UnescapeFrom(_, _, _)
UnescapeFrom(s, i, string) ==
    IF i > Len(s) THEN Fail(Err("NoEndingQuote", <<>>))
    ELSE IF s[i] = "\""
    THEN IF i = Len(s) THEN Ok(string) ELSE Fail(Err("SpuriousTail", <<>>))
    ELSE IF s[i] # "\\" THEN UnescapeFrom(s, i + 1, Append(string, CodePoint(s[i])))
    ELSE IF i + 1 > Len(s) THEN Fail(Err("NoEndingQuote", <<>>))
    ELSE LET e == s[i + 1]
             simple == <<<<"\"", 34>>, <<"\\", 92>>, <<"/", 47>>, <<"b", 8>>,
                         <<"f", 12>>, <<"n", 10>>, <<"r", 13>>, <<"t", 9>>>>
         IN
         IF \E k \in 1..Len(simple) : simple[k][1] = e
         THEN UnescapeFrom(s, i + 2,
                  Append(string, simple[CHOOSE k \in 1..Len(simple) : simple[k][1] = e][2]))
         ELSE IF e # "u" THEN Fail(Err("UnknownEscape", <<e>>))
         ELSE LET bad == {k \in 2..5 : i + k > Len(s) \/ ToDigit(s[i + k]) = -1} IN
              IF bad # {}
              THEN LET k == CHOOSE k \in bad : \A other \in bad : k <= other IN
                   IF i + k > Len(s) THEN Fail(Err("NoEndingQuote", <<>>))
                   ELSE Fail(Err("NotADigit", <<s[i + k]>>))
              ELSE LET code == ToDigit(s[i + 2]) * 4096 + ToDigit(s[i + 3]) * 256
                                 + ToDigit(s[i + 4]) * 16 + ToDigit(s[i + 5])
                   IN
                   IF IsChar(code) THEN UnescapeFrom(s, i + 6, Append(string, code))
                   ELSE Fail(Err("NotUnicode", <<code>>))

\* utils::unescape
Unescape(s) ==
    IF s = <<>> THEN Fail(Err("NoEndingQuote", <<>>))
    ELSE IF s[1] # "\"" THEN Fail(Err("NoStartingQuote", <<>>))
    ELSE UnescapeFrom(s, 2, <<>>)

\* str::parse::<i64> on the characters of a `number` token, -1 for Err on a
\* character that is no digit
RECURSIVE ParseDigits(_, _)
ParseDigits(chars, acc) ==
    IF chars = <<>> THEN acc
    ELSE LET digit == ToDigit(Head(chars)) IN
         IF digit < 0 \/ digit > 9 \/ acc < 0 THEN -1
         ELSE ParseDigits(Tail(chars), acc * 10 + digit)

ParseI64(chars) ==
    LET negative == chars # <<>> /\ Head(chars) = "-"
        digits == IF negative THEN Tail(chars) ELSE chars
        abs == IF digits = <<>> THEN -1 ELSE ParseDigits(digits, 0)
    IN
    IF abs < 0 THEN Fail(Err("ParseIntError", <<>>))
    ELSE Ok(IF negative THEN 0 - abs ELSE abs)

\* ErrorLogger::absorb: the value, or the default with the error logged
Absorb(r, default) ==
    IF r.ok THEN [val |-> r.val, errors |-> <<>>] ELSE [val |-> default, errors |-> <<r.err>>]

\* the errors logged by the items of a list or a dict, in order
RECURSIVE Logged(_)
Logged(items) == IF items = <<>> THEN <<>> ELSE Head(items).errors \o Logged(Tail(items))

\* Expression::parse on the tokens of a JSON value (Literal::parse,
\* List::parse, Dict::parse with KeyValue::parse), with the errors it logs
RECURSIVE ExpressionParse(_)
ExpressionParse(doc) ==
    CASE doc.j = "null" -> [expr |-> ExprLiteral(LitNull), errors |-> <<>>]
      [] doc.j = "bool" -> [expr |-> ExprLiteral(LitBool(doc.s = "true")), errors |-> <<>>]
      [] doc.j = "number" ->
            LET int == Absorb(ParseI64(doc.n.raw), 0) IN
            [expr |-> ExprLiteral(LitInteger(int.val)), errors |-> int.errors]
      [] doc.j = "list" ->
            LET items == [i \in 1..Len(doc.items) |-> ExpressionParse(doc.items[i])] IN
            [expr |-> ExprList([i \in 1..Len(items) |-> items[i].expr]),
             errors |-> Logged(items)]
      [] doc.j = "object" ->
            LET items ==
                    [i \in 1..Len(doc.members) |->
                        LET key == Absorb(Unescape(AsStr(doc.members[i].key)), <<>>)
                            value == ExpressionParse(doc.members[i].value)
                        IN
                        [expr |-> KeyValue(key.val, value.expr),
                         errors |-> key.errors \o value.errors]]
            IN
            [expr |-> ExprDict([i \in 1..Len(items) |-> items[i].expr]),
             errors |-> Logged(items)]

\* parser::parse: Ok(block) when the logger is empty, else the ParseError
Parse(doc) ==
    LET main == ExpressionParse(doc) IN
    IF main.errors = <<>> THEN Ok(Block(<<>>, main.expr)) ELSE Fail(main.errors)

\* ryan::from_str, first half: the document is parsed
JsonParse ==
    /\ json # <<>>
    /\ parsed = <<>>
    /\ parsed' = Parse(json)
    /\ UNCHANGED <<json, jsonOut, importVars, evalVars, loaderVars, decodeVars, arithVars>>

\* ryan::from_str, second half: the block is evaluated
JsonEval ==
    /\ parsed # <<>>
    /\ parsed.ok
    /\ jsonOut = <<>>
    /\ jsonOut' = ParserEval(parsed.val, <<>>)
    /\ UNCHANGED <<json, parsed, importVars, evalVars, loaderVars, decodeVars, arithVars>>

InitJson ==
    /\ json \in JsonDocuments
    /\ parsed = <<>>
    /\ jsonOut = <<>>
    /\ loaderName \in Loaders
    /\ fs = <<>>
    /\ loaded = <<>>
    /\ import_stack = <<>>
    /\ loadCalls = <<>>
    /\ frames = <<>>
    /\ result = Running
    /\ nImports = 0
    /\ last = NoLast
    /\ EvalIdle
    /\ LoaderIdle
    /\ DecoderIdle
    /\ ArithIdle

NextJson == JsonParse \/ JsonEval

SpecJson == InitJson /\ [][NextJson]_vars

----------------------------------------------------------------------------
(* Properties of JSON documents *)

\* the code points of a JSON string
RECURSIVE Means(_)
Means(units) == IF units = <<>> THEN <<>> ELSE Head(units).means \o Means(Tail(units))

\* the value a JSON document stands for
RECURSIVE JsonEquivalent(_)
JsonEquivalent(doc) ==
    CASE doc.j = "null" -> ValueNull
      [] doc.j = "bool" -> ValueBool(doc.s = "true")
      [] doc.j = "number" -> ValueInteger(doc.n.means)
      [] doc.j = "list" ->
            ValueList([i \in 1..Len(doc.items) |-> JsonEquivalent(doc.items[i])])
      [] doc.j = "object" ->
            ValueMap([i \in 1..Len(doc.members) |->
                        <<Means(doc.members[i].key), JsonEquivalent(doc.members[i].value)>>])

\* C15: every JSON document parses as a program, and the program evaluates
\* without error to the value the document stands for.
C15_JsonSuperset ==
    /\ parsed # <<>> => parsed.ok
    /\ jsonOut # <<>> => jsonOut.status = "value" /\ jsonOut.val = JsonEquivalent(json)

(***************************************************************************)
(* Part VI: the integer arms of BinaryOperation::eval                      *)
(* (parser/operation.rs), on operands near zero and near the limits of     *)
(* i64.                                                                    *)
(***************************************************************************)

\* The integer c * X^2 + a * X + b, where X = 2^63 and c, a and b are small:
\* the operands have c = 0, and the exact results of one operation on them
\* have this form too
Big(c, a, b) == [c |-> c, a |-> a, b |-> b]
Small(n) == Big(0, 0, n)

\* i64::MIN and i64::MAX
I64Min == Big(0, -1, 0)
I64Max == Big(0, 1, -1)

\* the exact sum, difference and product
BigAdd(x, y) == Big(x.c + y.c, x.a + y.a, x.b + y.b)
BigNeg(x) == Big(-x.c, -x.a, -x.b)
BigSub(x, y) == BigAdd(x, BigNeg(y))
BigMul(x, y) == Big(x.a * y.a, x.a * y.b + x.b * y.a, x.b * y.b)

\* whether the exact result is an i64: -X <= x < X
InI64(x) ==
    /\ x.c = 0
    /\ \/ x.a = 0
       \/ x.a = 1 /\ x.b < 0
       \/ x.a = -1 /\ x.b >= 0

\* the i64 congruent to x modulo 2^64 (X^2 and 2 * X are multiples of 2^64)
Wrapping(x) ==
    IF x.a % 2 = 0 THEN Small(x.b)
    ELSE IF x.b >= 0 THEN Big(0, -1, x.b) ELSE Big(0, 1, x.b)

IsNegative(x) == x.a < 0 \/ (x.a = 0 /\ x.b < 0)
Magnitude(x) == IF IsNegative(x) THEN BigNeg(x) ELSE x
\* x < y, for x and y that are not negative
Below(x, y) == x.a < y.a \/ (x.a = y.a /\ x.b < y.b)

\* the quotient of i64 division, which truncates towards zero; the divisor
\* is not zero and the quotient is an i64
Quotient(left, right) ==
    LET sign == IF IsNegative(left) = IsNegative(right) THEN 1 ELSE -1 IN
    IF left.a = 0 /\ right.a = 0
    THEN Small(sign * (Magnitude(left).b \div Magnitude(right).b))
    ELSE IF right = Small(1) THEN left
    ELSE IF right = Small(-1) THEN BigNeg(left)
    ELSE IF Below(Magnitude(left), Magnitude(right)) THEN Small(0)
    ELSE Small(sign)        \* both near the limits: |left| < 2 * |right|

\* what one evaluation of an integer operation gives
Computed(val) == [r |-> "value", val |-> val]
Aborted == [r |-> "panic", val |-> ValueNull]
NotComputed == <<>>

\* an integer result: with overflow checks built in (the default of a debug
\* build) a result that is no i64 panics, without them (the default of a
\* release build) it wraps
Overflowing(exact, checks) ==
    IF InI64(exact) THEN Computed(ValueInteger(exact))
    ELSE IF checks THEN Aborted
    ELSE Computed(ValueInteger(Wrapping(exact)))

\* BinaryOperation::eval, the arms with two Integer operands
OperateInteger(left, op, right, checks) ==
    CASE op = "Plus" -> Overflowing(BigAdd(left, right), checks)
      [] op = "Minus" -> Overflowing(BigSub(left, right), checks)
      [] op = "Times" -> Overflowing(BigMul(left, right), checks)
      [] op \in {"Divided", "Remainder"} ->
            IF right = Small(0) THEN Computed(ValueFloat(NaN))
            \* i64::MIN / -1 and i64::MIN % -1 panic whatever the build
            ELSE IF left = I64Min /\ right = Small(-1) THEN Aborted
            ELSE IF op = "Divided"
            THEN Computed(ValueInteger(Quotient(left, right)))
            ELSE Computed(ValueInteger(
                     BigSub(left, BigMul(Quotient(left, right), right))))

\* one evaluation of `left op right` by a build with or without overflow
\* checks
IntegerOperation(checks) ==
    /\ operation # <<>>
    /\ computed = NotComputed
    /\ computed' = OperateInteger(operation.left.int, operation.op,
                                  operation.right.int, checks)
    /\ UNCHANGED <<operation, importVars, evalVars, loaderVars, decodeVars, jsonVars>>

\* the operands: the integers next to zero and next to the limits of i64
IntegerOperands ==
    {Small(-1), Small(0), Small(1), I64Min, BigAdd(I64Min, Small(1)),
     BigSub(I64Max, Small(1)), I64Max}

ArithmeticOperators == {"Plus", "Minus", "Times", "Divided", "Remainder"}

InitArith ==
    /\ operation \in [left : {ValueInteger(x) : x \in IntegerOperands},
                      op : ArithmeticOperators,
                      right : {ValueInteger(x) : x \in IntegerOperands}]
    /\ computed = NotComputed
    /\ loaderName \in Loaders
    /\ fs = <<>>
    /\ loaded = <<>>
    /\ import_stack = <<>>
    /\ loadCalls = <<>>
    /\ frames = <<>>
    /\ result = Running
    /\ nImports = 0
    /\ last = NoLast
    /\ EvalIdle
    /\ LoaderIdle
    /\ DecoderIdle
    /\ JsonIdle

NextArith == \E checks \in BOOLEAN : IntegerOperation(checks)

SpecArith == InitArith /\ [][NextArith]_vars

----------------------------------------------------------------------------
(* Properties of integer arithmetic *)

\* C27: an integer `+`, `-`, `*`, `/` or `%` ends with a value (Float NaN
\* when the divisor is zero) and never aborts the evaluator
C27_ArithmeticTotal ==
    computed # NotComputed =>
        /\ computed.r = "value"
        /\ operation.op \in {"Divided", "Remainder"} /\ operation.right.int = Small(0)
              => computed.val = ValueFloat(NaN)

\* the exact result of the operation, for the operators that can overflow
Exact(o) ==
    CASE o.op = "Plus" -> BigAdd(o.left.int, o.right.int)
      [] o.op = "Minus" -> BigSub(o.left.int, o.right.int)
      [] o.op = "Times" -> BigMul(o.left.int, o.right.int)
      [] OTHER -> Small(0)

\* an operation aborts only when its exact result is no i64, or when it is
\* i64::MIN / -1 or i64::MIN % -1; every integer it gives is an i64
AbortsOnlyOnOverflow ==
    computed # NotComputed =>
        /\ computed.r = "panic" =>
              \/ ~InI64(Exact(operation))
              \/ /\ operation.op \in {"Divided", "Remainder"}
                 /\ operation.left.int = I64Min
                 /\ operation.right.int = Small(-1)
        /\ computed.r = "value" /\ computed.val.t = "Integer" =>
              InI64(computed.val.int)

\* division and remainder agree: left = quotient * right + remainder, and the
\* remainder is smaller than the divisor
DivisionIdentity ==
    computed # NotComputed /\ computed.r = "value" /\ computed.val.t = "Integer"
        /\ operation.op = "Remainder" =>
            LET q == Quotient(operation.left.int, operation.right.int)
                rem == computed.val.int
            IN
            /\ BigAdd(BigMul(q, operation.right.int), rem) = operation.left.int
            /\ Below(Magnitude(rem), Magnitude(operation.right.int))
            /\ rem = Small(0) \/ IsNegative(rem) = IsNegative(operation.left.int)

====
